---- MODULE Spec2Model ----
(***************************************************************************)
(* Consumer-side reference resolution of dubbo-go: the URL descriptor and  *)
(* its merge (common/url.go), the nacos service-discovery adapter          *)
(* (registry/nacos/service_discovery.go), the service instance value       *)
(* object (registry/service_instance.go) and ReferenceConfig.Refer         *)
(* (config/reference_config.go).                                           *)
(***************************************************************************)
EXTENDS Integers, Sequences, FiniteSets, TLC

VARIABLES
    \* ---- URL.MergeURL: receiver, argument and result
    c,              \* the receiver URL of MergeURL
    anotherUrl,     \* the argument URL of MergeURL
    mergedURL,      \* the URL MergeURL returned
    urlpc,          \* "init" before the call, "merged" after it
    \* ---- toRegisterInstance / GetInstances on one instance
    instance,       \* the ServiceInstance handed to the adapter
    registryURL,    \* nacosServiceDiscovery.registryURL
    registerParam,  \* the vo.RegisterInstanceParam sent to the backend
    fetched,        \* what GetInstances returned for the stored record
    instpc,         \* "init", "registered", "fetched"
    \* ---- GetInstancesByPage, called page after page
    backendInstances, \* what SelectAllInstances returns for the service
    pageSize,       \* the caller's page size
    offset,         \* the offset of the next call
    lastPage,       \* the gxpage.Pager the last call returned
    collected,      \* the concatenation of the pages returned so far
    pagepc,         \* "paging", "done"
    \* ---- nacosServiceDiscovery: registration
    serviceNameInstancesMap, \* service name -> the instances batched for it
    registryInstances,  \* the instances recorded by successful Register calls
    lastBatch,      \* the last vo.BatchRegisterInstanceParam sent to the backend
    lastCall,       \* the last call: operation, instance, backend answer, result
    calls,          \* the number of calls made so far
    registerLog,    \* history: the Register calls made, each with its result
    destroy,        \* the Destroy call: its position, the deregistrations, the closes
    \* ---- nacosServiceDiscovery: listeners and pushes
    instanceListenerMap, \* service name -> the set of listeners recorded under it
    subscriptions,  \* backend: service name -> the number of callbacks subscribed
    adding,         \* the AddListener call in progress, if any
    returned,       \* the listeners for which an AddListener call has returned
    lastPush,       \* the last backend push: its service and each listener's OnEvent count
    addCalls,       \* the number of AddListener calls made so far
    \* ---- ReferenceConfig.Refer
    rc,             \* the ReferenceConfig: its configuration, urls, invoker and pxy
    rootConfig,     \* rc.rootConfig: the consumer section and the registries
    referOutcome,   \* "none", "ok", or the panic the last Refer ended with
    invokersAcquired, \* the number of invokers the protocols were asked for
    referCalls,     \* the number of Refer calls made so far
    backendServices,  \* what the backend holds: its service names and how it counts
    getServices, \* the GetServices call: page number, result set, position
    newURLInput,  \* the text NewURL is called with
    newURLResult, \* what NewURL returned: the URL and the error
    sharedParams,  \* the params map of the URL two goroutines share
    paramsLock,  \* URL.paramsLock: whether it is write-held and the number of read holders
    writer,  \* the writing goroutine: its operation and position
    reader,  \* the reading goroutine: its operation, position and what it read
    lockOps, \* the number of operations started on the shared URL
    listenerLock,  \* nacosServiceDiscovery.listenerLock: free, or the holder
    addListener,  \* the AddListener call in progress, step by step
    pushing, \* the SubscribeCallback run in progress, step by step
    initRoot,  \* the RootConfig Init is called with
    initResult, \* what Init returned: none before the call, nil, or the error
    registering  \* the Register calls running concurrently: for each goroutine its position, instance and local copy

urlVars == <<c, anotherUrl, mergedURL, urlpc>>
instVars == <<instance, registryURL, registerParam, fetched, instpc>>
pageVars == <<backendInstances, pageSize, offset, lastPage, collected, pagepc>>
regVars == <<serviceNameInstancesMap, registryInstances, lastBatch, lastCall, calls,
            registerLog, destroy>>
lisVars == <<instanceListenerMap, subscriptions, adding, returned, lastPush, addCalls>>
rcVars == <<rc, rootConfig, referOutcome, invokersAcquired, referCalls>>

svcVars == <<backendServices, getServices>>
newVars == <<newURLInput, newURLResult>>
lockVars == <<sharedParams, paramsLock, writer, reader, lockOps>>
lisLockVars == <<listenerLock, addListener, pushing>>
initVars == <<initRoot, initResult>>
concVars == <<registering>>

notSvcVars == <<urlVars, instVars, pageVars, regVars, lisVars, rcVars, newVars, lockVars,
     lisLockVars,
     initVars,
     concVars>>

notNewVars == <<urlVars, instVars, pageVars, regVars, lisVars, rcVars, svcVars, lockVars,
     lisLockVars,
     initVars,
     concVars>>

notLockVars == <<urlVars, instVars, pageVars, regVars, lisVars, rcVars, svcVars, newVars,
     lisLockVars,
     initVars,
     concVars>>

notLisLockVars == <<urlVars, instVars, pageVars, regVars, lisVars, rcVars, svcVars, newVars, lockVars,
     initVars,
     concVars>>

notInitVars == <<urlVars, instVars, pageVars, regVars, lisVars, rcVars, svcVars, newVars, lockVars, lisLockVars,
     concVars>>

notAdapterVars == <<urlVars, instVars, pageVars, regVars, rcVars, svcVars, newVars, lockVars,
     initVars,
     concVars>>

notRcInitVars == <<urlVars, instVars, pageVars, regVars, lisVars, svcVars, newVars, lockVars,
     lisLockVars,
     concVars>>

notConcVars == <<urlVars, instVars, pageVars, regVars, lisVars, rcVars, svcVars, newVars, lockVars, lisLockVars, initVars>>

vars == <<urlVars, instVars, pageVars, regVars, lisVars, rcVars, svcVars, newVars, lockVars, lisLockVars, initVars, concVars>>

\* the variables each specification leaves alone
notUrlVars == <<instVars, pageVars, regVars, lisVars, rcVars, svcVars, newVars, lockVars,
     lisLockVars,
     initVars,
     concVars>>
notInstVars == <<urlVars, pageVars, regVars, lisVars, rcVars, svcVars, newVars, lockVars,
     lisLockVars,
     initVars,
     concVars>>
notPageVars == <<urlVars, instVars, regVars, lisVars, rcVars, svcVars, newVars, lockVars,
     lisLockVars,
     initVars,
     concVars>>
notRegVars == <<urlVars, pageVars, lisVars, rcVars, instance, registerParam, fetched, instpc,
     svcVars,
     newVars,
     lockVars,
     lisLockVars,
     initVars,
     concVars>>
notLisVars == <<urlVars, instVars, pageVars, regVars, rcVars, svcVars, newVars, lockVars,
     lisLockVars,
     initVars,
     concVars>>
notRcVars == <<urlVars, instVars, pageVars, regVars, lisVars, svcVars, newVars, lockVars,
     lisLockVars,
     initVars,
     concVars>>

(***************************************************************************)
(* URL parameters: url.Values, a map from key to a non-empty list of       *)
(* values, modelled as a function from the set of present keys to          *)
(* sequences of strings.                                                   *)
(***************************************************************************)
LoadbalanceKey == "loadbalance"
ClusterKey == "cluster"
RetriesKey == "retries"
TimeoutKey == "timeout"
TimestampKey == "timestamp"
RemoteTimestampKey == "remote.timestamp"
ApplicationKey == "application"

EmptyParams == [k \in {} |-> <<>>]

\* url.Values.Get: the first value of the key, "" when the key is absent
ValuesGet(params, key) ==
    IF key \in DOMAIN params /\ Len(params[key]) > 0 THEN params[key][1] ELSE ""

\* params[key] = value (a map store)
ValuesPut(params, key, value) ==
    [k \in DOMAIN params \cup {key} |-> IF k = key THEN value ELSE params[k]]

\* url.Values.Set: replace the key's list by the single value
ValuesSet(params, key, value) == ValuesPut(params, key, <<value>>)

\* url.Values.Add: append the value to the key's list
ValuesAdd(params, key, value) ==
    ValuesPut(params, key,
              IF key \in DOMAIN params THEN Append(params[key], value) ELSE <<value>>)

NoURL == [Protocol |-> "", Location |-> "", Ip |-> "", Port |-> "", PrimitiveURL |-> "",
          Path |-> "", Username |-> "", Password |-> "", params |-> EmptyParams,
          Methods |-> <<>>, SubURL |-> <<>>, nil |-> TRUE]

\* a URL value with the given fields
MkURL(protocol, location, path, params, methods) ==
    [Protocol |-> protocol, Location |-> location, Ip |-> "", Port |-> "",
     PrimitiveURL |-> "", Path |-> path, Username |-> "", Password |-> "",
     params |-> params, Methods |-> methods, SubURL |-> <<>>, nil |-> FALSE]

GetParam(u, s, d) ==
    LET r == ValuesGet(u.params, s) IN IF r = "" THEN d ELSE r

\* the (value, ok) pair of GetNonDefaultParam
GetNonDefaultParam(u, s) ==
    LET r == ValuesGet(u.params, s) IN [v |-> r, ok |-> r # ""]

GetParams(u) == u.params

SetParam(u, key, value) == [u EXCEPT !.params = ValuesSet(u.params, key, value)]

AddParam(u, key, value) == [u EXCEPT !.params = ValuesAdd(u.params, key, value)]

\* Clone: every field copied, the parameters rebuilt by SetParam(key, v[0])
Clone(u) ==
    [u EXCEPT !.params = [k \in DOMAIN u.params |-> <<u.params[k][1]>>]]

\* the first loop of MergeURL: a key of anotherUrl is copied when the clone has
\* no non-empty value for it
MergeMissingAlways(params, other) ==
    [k \in DOMAIN params \cup {k2 \in DOMAIN other : Len(other[k2]) > 0} |->
        IF k \in DOMAIN other /\ Len(other[k]) > 0 THEN other[k] ELSE params[k]]

MergeMissing(params, other) ==
    [k \in DOMAIN params \cup
           {k2 \in DOMAIN other : ValuesGet(params, k2) = "" /\ Len(other[k2]) > 0} |->
        IF k \in DOMAIN other /\ ValuesGet(params, k) = "" /\ Len(other[k]) > 0
        THEN other[k] ELSE params[k]]

\* the "remote timestamp" block of MergeURL: it runs when the receiver has NO
\* non-empty timestamp, and v is then the empty string
MergeTimestamp(params, recv, other) ==
    LET r == GetNonDefaultParam(recv, TimestampKey) IN
    IF ~r.ok
    THEN ValuesPut(ValuesPut(params, RemoteTimestampKey, <<r.v>>),
                   TimestampKey, <<GetParam(other, TimestampKey, "")>>)
    ELSE params

OverrideParamKeys == <<LoadbalanceKey, ClusterKey, RetriesKey, TimeoutKey>>

MethodsKey(method, paramKey) == "methods." \o method \o "." \o paramKey

\* the body of the inner loop of MergeURL for one method and one paramKey
MergeMethodKey(params, other, method, paramKey) ==
    LET v1 == GetParam(other, paramKey, "")
        p1 == IF Len(v1) > 0 THEN ValuesPut(params, paramKey, <<v1>>) ELSE params
        v2 == GetParam(other, MethodsKey(method, paramKey), "")
    IN  IF Len(v2) > 0 THEN ValuesPut(p1, MethodsKey(method, paramKey), <<v2>>) ELSE p1

RECURSIVE MergeMethodKeys(_, _, _, _)
MergeMethodKeys(params, other, method, j) ==
    IF j > Len(OverrideParamKeys) THEN params
    ELSE MergeMethodKeys(MergeMethodKey(params, other, method, OverrideParamKeys[j]),
                         other, method, j + 1)

\* the outer loop of MergeURL: one round per method of anotherUrl
RECURSIVE MergeMethods(_, _, _)
MergeMethods(params, other, i) ==
    IF i > Len(other.Methods) THEN params
    ELSE MergeMethods(MergeMethodKeys(params, other, other.Methods[i], 1), other, i + 1)

MergeURL(recv, other) ==
    LET cl == Clone(recv)
        p1 == MergeMissing(GetParams(cl), GetParams(other))
        p2 == MergeTimestamp(p1, recv, other)
        p3 == MergeMethods(p2, other, 1)
    IN  [cl EXCEPT !.params = p3, !.Methods = other.Methods]

(***************************************************************************)
(* Service instances (DefaultServiceInstance), the records of the naming   *)
(* backend (model.Instance) and the conversions between them.  A float64   *)
(* weight is held in tenths, so that rounding and truncation are visible.  *)
(***************************************************************************)
idKey == "id"
RegistryWeightKey == "registry.weight"

DefaultWeight == 100
DefaultNacosWeight == 1
MaxNacosWeight == 10000

EmptyMeta == [k \in {} |-> ""]

NoInstance == [ID |-> "", ServiceName |-> "", Host |-> "", Port |-> 0, Weight |-> 0,
               Enable |-> FALSE, Healthy |-> FALSE, Metadata |-> EmptyMeta,
               GroupName |-> "", nil |-> TRUE]

NoParam == [ServiceName |-> "", Ip |-> "", Port |-> 0, Metadata |-> EmptyMeta,
            Weight |-> 0, Enable |-> FALSE, Healthy |-> FALSE, GroupName |-> "",
            Ephemeral |-> FALSE, nil |-> TRUE]

\* DefaultServiceInstance.GetWeight
GetWeight(d) == IF d.Weight <= 0 THEN DefaultWeight ELSE d.Weight

\* DefaultServiceInstance.GetMetadata: never nil (a nil map reads as the empty map)
GetMetadata(d) == d.Metadata

\* metadata[key] = value
MetaPut(m, key, value) == [k \in DOMAIN m \cup {key} |-> IF k = key THEN value ELSE m[k]]

\* delete(metadata, key)
MetaDelete(m, key) == [k \in DOMAIN m \ {key} |-> m[k]]

\* metadata[key], "" when the key is absent
MetaGet(m, key) == IF key \in DOMAIN m THEN m[key] ELSE ""

\* strconv.ParseFloat(s, 64) on the weight literals of the model: err, or the
\* value in tenths; huge marks a value (or NaN) that no int64 represents
ParseFloat(s) ==
    CASE s = "0"     -> [err |-> FALSE, tenths |-> 0,      huge |-> FALSE]
      [] s = "7"     -> [err |-> FALSE, tenths |-> 70,     huge |-> FALSE]
      [] s = "2.9"   -> [err |-> FALSE, tenths |-> 29,     huge |-> FALSE]
      [] s = "-3"    -> [err |-> FALSE, tenths |-> -30,    huge |-> FALSE]
      [] s = "-0.5"  -> [err |-> FALSE, tenths |-> -5,     huge |-> FALSE]
      [] s = "10001" -> [err |-> FALSE, tenths |-> 100010, huge |-> FALSE]
      [] s = "1e30"  -> [err |-> FALSE, tenths |-> 0,      huge |-> TRUE]
      [] OTHER       -> [err |-> TRUE,  tenths |-> 0,      huge |-> FALSE]

\* a stand-in, within TLC's integers, for the extreme int64 values
Int64Extreme == 100000000

\* int64(f) of an out-of-range float is implementation dependent: the smallest
\* int64 (amd64), a saturated value or zero (arm64)
OutOfRangeInt64 == {-Int64Extreme, 0, Int64Extreme}

\* int64(f): truncation toward zero; ovf is the build's result out of range
Int64OfFloat(f, ovf) ==
    IF f.huge THEN ovf
    ELSE IF f.tenths >= 0 THEN f.tenths \div 10 ELSE -((-f.tenths) \div 10)

\* float64(w) of an integer weight, in tenths
Float64OfInt(w) == w * 10

\* math.Round: to the nearest integer, halves away from zero
Round(tenths) ==
    IF tenths >= 0 THEN (tenths + 5) \div 10 ELSE -((-tenths + 5) \div 10)

\* the override falling back to DefaultWeight when registry.weight is no number
OverrideWeightDefaultOnError(inst, regURL, ovf) ==
    LET urlW == GetParam(regURL, RegistryWeightKey, "")
    IN  IF urlW = "" THEN GetWeight(inst)
        ELSE IF ParseFloat(urlW).err THEN DefaultWeight
        ELSE Int64OfFloat(ParseFloat(urlW), ovf)

\* the instance's weight, replaced by a numeric registry.weight
OverrideWeight(inst, regURL, ovf) ==
    LET w == GetWeight(inst)
        urlW == GetParam(regURL, RegistryWeightKey, "")
    IN  IF urlW # "" /\ ~ParseFloat(urlW).err
        THEN Int64OfFloat(ParseFloat(urlW), ovf)
        ELSE w

ClampWeightNoUpper(w) == IF w <= 0 THEN DefaultNacosWeight ELSE w

\* the validity check: a weight <= 0 becomes the backend default, one above the
\* upper limit the upper limit
ClampWeight(w) ==
    IF w <= 0 THEN DefaultNacosWeight
    ELSE IF w > MaxNacosWeight THEN MaxNacosWeight
    ELSE w

toRegisterInstance(inst, regURL, group, ovf) ==
    [ServiceName |-> inst.ServiceName, Ip |-> inst.Host, Port |-> inst.Port,
     Metadata |-> MetaPut(GetMetadata(inst), idKey, inst.ID),
     Weight |-> Float64OfInt(ClampWeight(OverrideWeight(inst, regURL, ovf))),
     Enable |-> inst.Enable, Healthy |-> inst.Healthy, GroupName |-> group,
     Ephemeral |-> TRUE, nil |-> FALSE]

\* the instance after toRegisterInstance: the metadata map is the instance's own,
\* so the reserved key is written into it
AfterToRegisterInstance(inst) ==
    [inst EXCEPT !.Metadata = MetaPut(GetMetadata(inst), idKey, inst.ID)]

\* the backend's record (model.Instance) of a registered instance
StoredInstance(param) ==
    [Ip |-> param.Ip, Port |-> param.Port, Weight |-> param.Weight,
     Enable |-> param.Enable, Healthy |-> param.Healthy, Metadata |-> param.Metadata]

\* the loop body of GetInstances: one backend record as a ServiceInstance
ToServiceInstanceKeepId(ins, serviceName, group) ==
    [ID |-> MetaGet(ins.Metadata, idKey), ServiceName |-> serviceName,
     Host |-> ins.Ip, Port |-> ins.Port, Weight |-> Round(ins.Weight),
     Enable |-> ins.Enable, Healthy |-> ins.Healthy,
     Metadata |-> ins.Metadata, GroupName |-> group, nil |-> FALSE]

ToServiceInstance(ins, serviceName, group) ==
    [ID |-> MetaGet(ins.Metadata, idKey), ServiceName |-> serviceName,
     Host |-> ins.Ip, Port |-> ins.Port, Weight |-> Round(ins.Weight),
     Enable |-> ins.Enable, Healthy |-> ins.Healthy,
     Metadata |-> MetaDelete(ins.Metadata, idKey), GroupName |-> group, nil |-> FALSE]

\* GetInstances on the backend's answer: the empty list on an error, else one
\* instance per record, in order
GetInstances(err, instances, serviceName, group) ==
    IF err THEN <<>>
    ELSE [i \in 1..Len(instances) |-> ToServiceInstance(instances[i], serviceName, group)]

defaultGroup == "DEFAULT_GROUP"

(***************************************************************************)
(* MergeURL as a state machine: the two URLs are drawn in Init, the        *)
(* single step applies the merge.                                          *)
(***************************************************************************)
MaxParams == 2

MergeKeys == {ClusterKey, MethodsKey("m1", RetriesKey), TimestampKey,
              RemoteTimestampKey, ApplicationKey}

\* the parameter maps with at most MaxParams keys and values from vals
ParamMaps(vals) ==
    UNION {[S -> {<<v>> : v \in vals}] :
           S \in {T \in SUBSET MergeKeys : Cardinality(T) <= MaxParams}}

MethodLists == {<<>>, <<"m1">>, <<"m2">>}

\* the other specifications' variables, at rest
IdleInst ==
    /\ instance = NoInstance
    /\ registryURL = NoURL
    /\ registerParam = NoParam
    /\ fetched = <<>>
    /\ instpc = "idle"

NoPage == [Offset |-> 0, PageSize |-> 0, Data |-> <<>>, TotalSize |-> 0]

IdlePage ==
    /\ backendInstances = <<>>
    /\ pageSize = 0
    /\ offset = 0
    /\ lastPage = NoPage
    /\ collected = <<>>
    /\ pagepc = "idle"

ServiceNames == {"s1", "s2"}

NoBatch == [ServiceName |-> "", GroupName |-> "", Instances |-> <<>>]

NoCall == [op |-> "none", instance |-> NoInstance, answers |-> <<>>, ret |-> "nil"]

NoDestroy == [pc |-> "idle", instances |-> <<>>, i |-> 0, issued |-> <<>>, closed |-> 0,
              closedAfter |-> 0]

IdleReg ==
    /\ serviceNameInstancesMap = [s \in ServiceNames |-> <<>>]
    /\ registryInstances = <<>>
    /\ lastBatch = NoBatch
    /\ lastCall = NoCall
    /\ calls = 0
    /\ registerLog = <<>>
    /\ destroy = NoDestroy

\* the listeners and the service names each one watches
Listeners == {"L1", "L2"}

GetServiceNames(listener) == IF listener = "L1" THEN {"s1"} ELSE {"s1", "s2"}

\* make(map[string]*gxset.HashSet)
EmptyListenerMap == [s \in {} |-> {}]

NoAdding == [active |-> FALSE, listener |-> "", todo |-> {}]

NoPush == [service |-> "none", returned |-> {}, onEvent |-> [l \in Listeners |-> 0],
           err |-> FALSE, services |-> <<>>, instances |-> <<>>, failing |-> {},
           e |-> "nil"]

IdleLis ==
    /\ instanceListenerMap = EmptyListenerMap
    /\ subscriptions = [s \in ServiceNames |-> 0]
    /\ adding = NoAdding
    /\ returned = {}
    /\ lastPush = NoPush
    /\ addCalls = 0

NoInvoker == [url |-> <<>>, cluster |-> "", invokers |-> <<>>, filtered |-> FALSE,
              nil |-> TRUE]

NoProxy == [invoker |-> NoInvoker, async |-> FALSE, url |-> <<>>, nil |-> TRUE]

NoReference ==
    [InterfaceName |-> "", URL |-> <<>>, Protocol |-> "", RegistryIDs |-> <<>>,
     Cluster |-> "", Loadbalance |-> "", Retries |-> "", Group |-> "", Version |-> "",
     Generic |-> "", ProvidedBy |-> "", Serialization |-> "", TracingKey |-> "",
     RequestTimeout |-> "", Async |-> FALSE, Sticky |-> FALSE, ForceTag |-> FALSE,
     MeshProviderPort |-> 0, Params |-> EmptyParams, id |-> "", metaDataType |-> "",
     Filter |-> "", Check |-> <<>>, metricsEnable |-> FALSE,
     urls |-> <<>>, invoker |-> NoInvoker, pxy |-> NoProxy]

NoApplication == [Name |-> "", Organization |-> "", Module |-> "", Version |-> "",
                  Owner |-> "", Environment |-> "", Group |-> "", MetadataType |-> "",
                  nil |-> FALSE]

NoRoot == [Consumer |-> [AdaptiveService |-> FALSE, MeshEnabled |-> FALSE,
                         ProxyFactory |-> "", Filter |-> "", RegistryIDs |-> <<>>,
                         Protocol |-> "", TracingKey |-> "", Check |-> FALSE,
                         nil |-> FALSE],
           Metrics |-> [Enable |-> <<>>],
           Registries |-> {}, Application |-> NoApplication,
           env |-> [POD_NAMESPACE |-> <<>>, CLUSTER_DOMAIN |-> <<>>]]

IdleRc ==
    /\ rc = NoReference
    /\ rootConfig = NoRoot
    /\ referOutcome = "none"
    /\ invokersAcquired = 0
    /\ referCalls = 0

NoNewURL == [url |-> NoURL, err |-> "nil", called |-> FALSE]

IdleNew ==
    /\ newURLInput = ""
    /\ newURLResult = NoNewURL

NoGetServices == [pc |-> "idle", pageNo |-> 0, res |-> {}]

IdleSvc ==
    /\ backendServices = [names |-> <<>>, countIsTotal |-> TRUE]
    /\ getServices = NoGetServices

NoWriter == [pc |-> "idle", op |-> "", key |-> "", value |-> ""]

NoReader == [pc |-> "idle", op |-> "", key |-> "", todo |-> {}, got |-> EmptyParams,
             locked |-> FALSE, raced |-> FALSE]

IdleLock ==
    /\ sharedParams = EmptyParams
    /\ paramsLock = [writer |-> FALSE, readers |-> 0]
    /\ writer = NoWriter
    /\ reader = NoReader
    /\ lockOps = 0

NoAddListener == [pc |-> "idle", listener |-> "", write |-> {}, todo |-> {}]

NoPushing == [pc |-> "idle", service |-> "", err |-> FALSE, seen |-> {}, locked |-> FALSE,
              raced |-> FALSE]

IdleLisLock ==
    /\ listenerLock = "free"
    /\ addListener = NoAddListener
    /\ pushing = NoPushing

IdleInit ==
    /\ initRoot = NoRoot
    /\ initResult = "none"

Goroutines == {1, 2}

NoRegistering == [pc |-> "idle", instance |-> NoInstance, local |-> <<>>, ret |-> "nil"]

IdleConc == registering = [p \in Goroutines |-> NoRegistering]

InitMerge ==
    /\ IdleConc
    /\ IdleInit
    /\ IdleLisLock
    /\ IdleLock
    /\ IdleNew
    /\ IdleSvc
    /\ IdleInst
    /\ IdlePage
    /\ IdleReg
    /\ IdleLis
    /\ IdleRc
    /\ c \in {MkURL("tri", "h1:1", "/p", p, <<>>) : p \in ParamMaps({"a1", ""})}
    /\ anotherUrl \in {MkURL("tri", "h2:2", "/q", p, m) :
                          p \in ParamMaps({"b1", ""}), m \in MethodLists}
    /\ mergedURL = NoURL
    /\ urlpc = "init"

DoMergeURL ==
    /\ urlpc = "init"
    /\ mergedURL' = MergeURL(c, anotherUrl)
    /\ urlpc' = "merged"
    /\ UNCHANGED <<c, anotherUrl>>
    /\ UNCHANGED notUrlVars

NextMerge == DoMergeURL

SpecMerge == InitMerge /\ [][NextMerge]_vars

\* the value the override rule gives key k
OverrideValue(k) ==
    IF ValuesGet(anotherUrl.params, k) # "" THEN ValuesGet(anotherUrl.params, k)
    ELSE ValuesGet(c.params, k)

\* the value the left-biased rule gives key k
LeftBiasValue(k) ==
    IF ValuesGet(c.params, k) # "" THEN ValuesGet(c.params, k)
    ELSE ValuesGet(anotherUrl.params, k)

OverrideSet == {ClusterKey, MethodsKey("m1", RetriesKey)}

\* C2: after a.MergeURL(b), every key of the override set (loadbalance, cluster,
\* retries, timeout, methods.<m>.<k>) has b's value when b has a non-empty one
\* and a's value otherwise, whether or not b's Methods list is empty.
C2_OverrideSet ==
    urlpc = "merged" =>
        \A k \in OverrideSet : ValuesGet(mergedURL.params, k) = OverrideValue(k)

C21_MergeTimestamp ==
    (urlpc = "merged" /\ ValuesGet(c.params, TimestampKey) # "") =>
        /\ ValuesGet(mergedURL.params, RemoteTimestampKey) =
               ValuesGet(c.params, TimestampKey)
        /\ ValuesGet(mergedURL.params, TimestampKey) =
               ValuesGet(anotherUrl.params, TimestampKey)

(***************************************************************************)
(* One instance through toRegisterInstance, the backend and GetInstances.  *)
(* The instance and the registry URL are drawn in Init.                    *)
(***************************************************************************)
InstanceWeights == {-1, 0, 1, 50, MaxNacosWeight, MaxNacosWeight + 1}

RegistryWeights == {"", "0", "7", "2.9", "-3", "-0.5", "10001", "1e30", "abc"}

InstanceMetadata == {EmptyMeta, [k \in {"id"} |-> "old"], [k \in {"zone"} |-> "z1"],
                     [k \in {"id", "zone"} |-> IF k = "id" THEN "old" ELSE "z1"]}

IdleURL ==
    /\ c = NoURL
    /\ anotherUrl = NoURL
    /\ mergedURL = NoURL
    /\ urlpc = "idle"

InitInstance ==
    /\ IdleConc
    /\ IdleInit
    /\ IdleLisLock
    /\ IdleLock
    /\ IdleNew
    /\ IdleSvc
    /\ IdleURL
    /\ IdlePage
    /\ IdleReg
    /\ IdleLis
    /\ IdleRc
    /\ instance \in {[ID |-> id, ServiceName |-> "s1", Host |-> "h1", Port |-> 20000,
                       Weight |-> w, Enable |-> en, Healthy |-> TRUE, Metadata |-> m,
                       GroupName |-> "", nil |-> FALSE] :
                          id \in {"i1", ""}, w \in InstanceWeights, en \in BOOLEAN,
                          m \in InstanceMetadata}
    /\ registryURL \in {MkURL("nacos", "n1:8848", "", p, <<>>) :
                            p \in {EmptyParams} \cup
                                  {[k \in {RegistryWeightKey} |-> <<v>>] : v \in RegistryWeights}}
    /\ registerParam = NoParam
    /\ fetched = <<>>
    /\ instpc = "init"

\* Register's conversion of the instance, and the backend storing the record
DoToRegisterInstance ==
    /\ instpc = "init"
    /\ \E ovf \in OutOfRangeInt64 :
          registerParam' = toRegisterInstance(instance, registryURL, defaultGroup, ovf)
    /\ instance' = AfterToRegisterInstance(instance)
    /\ instpc' = "registered"
    /\ UNCHANGED <<registryURL, fetched>>
    /\ UNCHANGED notInstVars

\* GetInstances on the record the backend stored
DoGetInstances ==
    /\ instpc = "registered"
    /\ fetched' = GetInstances(FALSE, <<StoredInstance(registerParam)>>,
                               instance.ServiceName, defaultGroup)
    /\ instpc' = "fetched"
    /\ UNCHANGED <<instance, registryURL, registerParam>>
    /\ UNCHANGED notInstVars

NextInstance == DoToRegisterInstance \/ DoGetInstances

SpecInstance == InitInstance /\ [][NextInstance]_vars

\* the weight, in whole units, the backend was sent
SentWeight == registerParam.Weight \div 10

\* clamp(w, 1, MaxWeight) of the specification, a weight <= 0 sent as DefaultWeight
ClaimedWeight(w) ==
    IF w <= 0 THEN DefaultWeight
    ELSE IF w > MaxNacosWeight THEN MaxNacosWeight
    ELSE w

\* registry.weight is absent or is no number
NoNumericOverride ==
    \/ GetParam(registryURL, RegistryWeightKey, "") = ""
    \/ ParseFloat(GetParam(registryURL, RegistryWeightKey, "")).err

C6_RegistrationRoundTrip ==
    instpc = "fetched" =>
        /\ Len(fetched) = 1
        /\ fetched[1].ID = instance.ID
        /\ fetched[1].Metadata = MetaDelete(instance.Metadata, idKey)
        /\ idKey \notin DOMAIN fetched[1].Metadata

\* an instance whose own metadata held an "id" entry and another entry came back
\* with its id and the other entry only
C6_Witness ==
    /\ instpc = "fetched"
    /\ instance.ID = "i1"
    /\ fetched[1].ID = "i1"
    /\ DOMAIN fetched[1].Metadata = {"zone"}
    /\ registerParam.Metadata[idKey] = "i1"

(***************************************************************************)
(* GetInstancesByPage: the adapter fetches every instance and slices the   *)
(* list itself.  The backend's list and the page size are drawn in Init;   *)
(* the caller asks for offset 0, n, 2n, ... until a page comes back empty. *)
(***************************************************************************)
MaxInstances == 3
MaxPageSize == 3

\* the loop of GetInstancesByPage, i counting from offset (0-based)
RECURSIVE PageLoopInclusive(_, _, _, _, _)
PageLoopInclusive(all, i, off, size, res) ==
    IF i < Len(all) /\ i <= off + size
    THEN PageLoopInclusive(all, i + 1, off, size, Append(res, all[i + 1]))
    ELSE res

RECURSIVE PageLoop(_, _, _, _, _)
PageLoop(all, i, off, size, res) ==
    IF i < Len(all) /\ i < off + size
    THEN PageLoop(all, i + 1, off, size, Append(res, all[i + 1]))
    ELSE res

\* gxpage.NewPage(offset, pageSize, res, len(all))
GetInstancesByPage(err, instances, serviceName, group, off, size) ==
    LET all == GetInstances(err, instances, serviceName, group)
    IN  [Offset |-> off, PageSize |-> size, Data |-> PageLoop(all, off, off, size, <<>>),
         TotalSize |-> Len(all)]

\* the records the backend may hold for the service
BackendRecords ==
    {[Ip |-> "h1", Port |-> 20000, Weight |-> 10, Enable |-> TRUE, Healthy |-> TRUE,
      Metadata |-> [k \in {"id"} |-> "i1"]],
     [Ip |-> "h2", Port |-> 20000, Weight |-> 25, Enable |-> TRUE, Healthy |-> FALSE,
      Metadata |-> [k \in {"id"} |-> "i2"]],
     [Ip |-> "h3", Port |-> 20001, Weight |-> 1000, Enable |-> FALSE, Healthy |-> TRUE,
      Metadata |-> EmptyMeta]}

InitPage ==
    /\ IdleConc
    /\ IdleInit
    /\ IdleLisLock
    /\ IdleLock
    /\ IdleNew
    /\ IdleSvc
    /\ IdleURL
    /\ IdleInst
    /\ IdleReg
    /\ IdleLis
    /\ IdleRc
    /\ backendInstances \in UNION {[1..n -> BackendRecords] : n \in 0..MaxInstances}
    /\ pageSize \in 1..MaxPageSize
    /\ offset = 0
    /\ lastPage = NoPage
    /\ collected = <<>>
    /\ pagepc = "paging"

\* one call GetInstancesByPage(name, offset, pageSize) by a caller that stops at
\* the first empty page
FetchPage ==
    /\ pagepc = "paging"
    /\ LET pg == GetInstancesByPage(FALSE, backendInstances, "s1", defaultGroup,
                                    offset, pageSize)
       IN  /\ lastPage' = pg
           /\ collected' = collected \o pg.Data
           /\ offset' = offset + pageSize
           /\ pagepc' = IF Len(pg.Data) = 0 THEN "done" ELSE "paging"
    /\ UNCHANGED <<backendInstances, pageSize>>
    /\ UNCHANGED notPageVars

NextPage == FetchPage

SpecPage == InitPage /\ [][NextPage]_vars

\* the number of times x occurs in the sequence
Occurrences(seq, x) == Cardinality({i \in DOMAIN seq : seq[i] = x})

SameMultiset(s1, s2) ==
    /\ Len(s1) = Len(s2)
    /\ \A i \in DOMAIN s1 : Occurrences(s1, s1[i]) = Occurrences(s2, s1[i])

MaxCalls == 3

\* perrors.Errorf: always an error
Errorf(msg, err) == msg \o err

\* perrors.WithMessage: nil when err is nil
WithMessage(err, msg) == IF err = "nil" THEN "nil" ELSE msg \o ": " \o err

\* perrors.WithStack: nil when err is nil
WithStack(err) == err

\* the backend's answers to BatchRegisterInstance and DeregisterInstance
BackendAnswers == [ok : BOOLEAN, err : {"nil", "backend failure"}]

\* the instances callers register
RegInstance(id, name, host) ==
    [ID |-> id, ServiceName |-> name, Host |-> host, Port |-> 20000, Weight |-> 0,
     Enable |-> TRUE, Healthy |-> TRUE, Metadata |-> EmptyMeta, GroupName |-> "",
     nil |-> FALSE]

RegInstances == {RegInstance("i1", "s1", "h1"), RegInstance("i2", "s1", "h2"),
                 RegInstance("i3", "s2", "h1")}

\* toBatchRegisterInstances sending the newest instance only
toBatchRegisterInstancesLastOnly(instances, regURL, group) ==
    IF Len(instances) = 0 THEN NoBatch
    ELSE [ServiceName |-> instances[Len(instances)].ServiceName, GroupName |-> group,
          Instances |-> <<toRegisterInstance(instances[Len(instances)], regURL, group, 0)>>]

\* toBatchRegisterInstances: one RegisterInstanceParam per instance, in order
toBatchRegisterInstances(instances, regURL, group) ==
    LET rins == [i \in 1..Len(instances) |->
                    toRegisterInstance(instances[i], regURL, group, 0)]
    IN  IF Len(rins) = 0 THEN NoBatch
        ELSE [ServiceName |-> rins[1].ServiceName, GroupName |-> group,
              Instances |-> rins]

\* toDeregisterInstance
toDeregisterInstance(inst, group) ==
    [ServiceName |-> inst.ServiceName, Ip |-> inst.Host, Port |-> inst.Port,
     GroupName |-> group]

\* the error Register returns for the backend's answer
RegisterResult(ans) ==
    IF ans.err # "nil" \/ ~ans.ok
    THEN Errorf("register nacos instances failed, err:", ans.err)
    ELSE "nil"

\* the error Unregister returns for the backend's answer
UnregisterResult(inst, ans) ==
    IF ans.err # "nil" \/ ~ans.ok
    THEN WithMessage(ans.err, "Could not unregister the instance. " \o inst.ServiceName)
    ELSE "nil"

\* the state Register leaves: the instance is appended to its service's list
\* before the backend is called, and recorded only when the call succeeded
RegisterEffect(inst, ans) ==
    LET name == inst.ServiceName
        batched == [serviceNameInstancesMap EXCEPT ![name] = Append(@, inst)]
    IN  /\ serviceNameInstancesMap' = batched
        /\ lastBatch' = toBatchRegisterInstances(batched[name], registryURL, defaultGroup)
        /\ registryInstances' = IF RegisterResult(ans) = "nil"
                                THEN Append(registryInstances, inst)
                                ELSE registryInstances
        /\ registerLog' = Append(registerLog,
                                 [instance |-> inst, ret |-> RegisterResult(ans)])

InitRegister ==
    /\ IdleConc
    /\ IdleInit
    /\ IdleLisLock
    /\ IdleLock
    /\ IdleNew
    /\ IdleSvc
    /\ IdleURL
    /\ IdlePage
    /\ IdleLis
    /\ IdleRc
    /\ instance = NoInstance
    /\ registryURL = MkURL("nacos", "n1:8848", "", EmptyParams, <<>>)
    /\ registerParam = NoParam
    /\ fetched = <<>>
    /\ instpc = "idle"
    /\ serviceNameInstancesMap = [s \in ServiceNames |-> <<>>]
    /\ registryInstances = <<>>
    /\ lastBatch = NoBatch
    /\ lastCall = NoCall
    /\ calls = 0
    /\ registerLog = <<>>
    /\ destroy = NoDestroy

Register ==
    /\ calls < MaxCalls
    /\ destroy.pc = "idle"
    /\ \E inst \in RegInstances, ans \in BackendAnswers :
          /\ RegisterEffect(inst, ans)
          /\ lastCall' = [op |-> "Register", instance |-> inst, answers |-> <<ans>>,
                          ret |-> RegisterResult(ans)]
    /\ calls' = calls + 1
    /\ UNCHANGED <<registryURL, destroy>>
    /\ UNCHANGED notRegVars

Unregister ==
    /\ calls < MaxCalls
    /\ destroy.pc = "idle"
    /\ \E inst \in RegInstances, ans \in BackendAnswers :
          lastCall' = [op |-> "Unregister", instance |-> inst, answers |-> <<ans>>,
                       ret |-> UnregisterResult(inst, ans)]
    /\ calls' = calls + 1
    /\ UNCHANGED <<serviceNameInstancesMap, registryInstances, lastBatch, registryURL,
                   registerLog, destroy>>
    /\ UNCHANGED notRegVars

\* Update: Unregister, and Register when that returned no error
Update ==
    /\ calls < MaxCalls
    /\ destroy.pc = "idle"
    /\ \E inst \in RegInstances, ans1 \in BackendAnswers, ans2 \in BackendAnswers :
          IF UnregisterResult(inst, ans1) # "nil"
          THEN /\ lastCall' = [op |-> "Update", instance |-> inst, answers |-> <<ans1>>,
                               ret |-> WithStack(UnregisterResult(inst, ans1))]
               /\ UNCHANGED <<serviceNameInstancesMap, registryInstances, lastBatch,
                              registerLog>>
          ELSE /\ RegisterEffect(inst, ans2)
               /\ lastCall' = [op |-> "Update", instance |-> inst,
                               answers |-> <<ans1, ans2>>, ret |-> RegisterResult(ans2)]
    /\ calls' = calls + 1
    /\ UNCHANGED <<registryURL, destroy>>
    /\ UNCHANGED notRegVars

\* Destroy, one step per backend call.  The loop ranges over registryInstances
\* as it was when Destroy was called.
DestroyBegin ==
    /\ destroy.pc = "idle"
    /\ destroy' = [destroy EXCEPT !.pc = "loop", !.instances = registryInstances, !.i = 1]
    /\ UNCHANGED <<serviceNameInstancesMap, registryInstances, lastBatch, lastCall, calls,
                   registerLog, registryURL>>
    /\ UNCHANGED notRegVars

\* the index the loop of Destroy goes on with after an Unregister returned err
DestroyStopOnError(i, n, err) == IF err # "nil" THEN n + 1 ELSE i + 1

DestroyContinue(i, n, err) == i + 1

\* one round of the loop: Unregister(inst), its error logged
DestroyUnregister ==
    /\ destroy.pc = "loop"
    /\ destroy.i <= Len(destroy.instances)
    /\ \E ans \in BackendAnswers :
          LET inst == destroy.instances[destroy.i]
              err == UnregisterResult(inst, ans)
          IN destroy' = [destroy EXCEPT
                 !.issued = Append(@, [param |-> toDeregisterInstance(inst, defaultGroup),
                                       err |-> err]),
                 !.i = DestroyContinue(destroy.i, Len(destroy.instances), err)]
    /\ UNCHANGED <<serviceNameInstancesMap, registryInstances, lastBatch, lastCall, calls,
                   registerLog, registryURL>>
    /\ UNCHANGED notRegVars

\* after the loop: namingClient.Close(), return nil
DestroyClose ==
    /\ destroy.pc = "loop"
    /\ destroy.i > Len(destroy.instances)
    /\ destroy' = [destroy EXCEPT !.pc = "done", !.closed = @ + 1,
                                  !.closedAfter = Len(destroy.issued)]
    /\ UNCHANGED <<serviceNameInstancesMap, registryInstances, lastBatch, lastCall, calls,
                   registerLog, registryURL>>
    /\ UNCHANGED notRegVars

NextRegister ==
    \/ Register
    \/ Unregister
    \/ Update
    \/ DestroyBegin
    \/ DestroyUnregister
    \/ DestroyClose

SpecRegister == InitRegister /\ [][NextRegister]_vars

\* the backend call failed: it returned an error or ok = false
BackendFailed(ans) == ans.err # "nil" \/ ~ans.ok

\* C7: Register and Unregister return a non-nil error whenever the backend call
\* returned an error or ok = false, also ok = false with a nil error.
C7_NamingServiceErrorsReturned ==
    lastCall.op \in {"Register", "Unregister"} /\ BackendFailed(lastCall.answers[1])
        => lastCall.ret # "nil"

\* the instances of the Register calls in log that were for service name s
RegisteredFor(log, s) ==
    LET forS(e) == e.instance.ServiceName = s
        sel == SelectSeq(log, forS)
    IN [i \in 1..Len(sel) |-> sel[i].instance]

\* C14: a Register call for service name s sends one batch whose instances are
\* those of all Register calls for s so far, the new one last, and no instance
\* of another service name.
C14_RegisterBatchesByName ==
    [][Len(registerLog') = Len(registerLog) + 1 =>
          LET s == registerLog'[Len(registerLog')].instance.ServiceName
              held == RegisteredFor(registerLog', s)
              sent == lastBatch'.Instances
          IN /\ lastBatch'.ServiceName = s
             /\ Len(sent) = Len(held)
             /\ \A i \in 1..Len(sent) :
                    /\ sent[i].ServiceName = s
                    /\ sent[i].Ip = held[i].Host
                    /\ sent[i].Port = held[i].Port
                    /\ MetaGet(sent[i].Metadata, "id") = held[i].ID]_vars

\* the third Register call is the second one for s1, after one for s2, and its
\* batch holds the two instances of s1
C14_Witness ==
    /\ Len(registerLog) = 3
    /\ registerLog[1].instance.ServiceName = "s1"
    /\ registerLog[2].instance.ServiceName = "s2"
    /\ registerLog[3].instance.ServiceName = "s1"
    /\ registerLog[3].instance.ID # registerLog[1].instance.ID
    /\ lastBatch.ServiceName = "s1"
    /\ Len(lastBatch.Instances) = 2
    /\ lastBatch.Instances[1].Ip # lastBatch.Instances[2].Ip

\* the instances of the Register calls that returned no error
Recorded ==
    LET succeeded(e) == e.ret = "nil"
        sel == SelectSeq(registerLog, succeeded)
    IN [i \in 1..Len(sel) |-> sel[i].instance]

TimesSent(batch, inst) ==
    Cardinality({i \in DOMAIN batch.Instances :
                    MetaGet(batch.Instances[i].Metadata, idKey) = inst.ID})

\* C25: the batch a Register call sends right after a successful Unregister(x)
\* does not contain x (unless x itself is registered again), and the batch an
\* Update(x) sends contains x exactly once.
C25_NoResurrection ==
    [][calls' = calls + 1 =>
          /\ (/\ lastCall.op = "Unregister" /\ lastCall.ret = "nil"
              /\ lastCall'.op = "Register"
              /\ lastCall'.instance # lastCall.instance)
                 => TimesSent(lastBatch', lastCall.instance) = 0
          /\ (lastCall'.op = "Update" /\ Len(lastCall'.answers) = 2)
                 => TimesSent(lastBatch', lastCall'.instance) = 1]_vars

\* the instances held in the per-service batch lists
Batched(map) == UNION {{map[name][i] : i \in DOMAIN map[name]} : name \in DOMAIN map}

\* the instances held in a list
Members(list) == {list[i] : i \in DOMAIN list}

\* C26: a Register call that returns an error leaves the per-service batch
\* lists and the list of recorded instances as they were, and after every call
\* the two hold the same instances.
C26_FailedRegisterLeavesNoTrace ==
    [][calls' = calls + 1 =>
          /\ (lastCall'.op = "Register" /\ lastCall'.ret # "nil") =>
                 /\ serviceNameInstancesMap' = serviceNameInstancesMap
                 /\ registryInstances' = registryInstances
          /\ Batched(serviceNameInstancesMap') = Members(registryInstances')]_vars

(***************************************************************************)
(* nacosServiceDiscovery: AddListener and the backend's pushes.            *)
(* AddListener records the listener under its service names (under         *)
(* listenerLock) and then calls Subscribe once per name, each time with a  *)
(* new callback; the calls block, so pushes may arrive between them.  The  *)
(* backend keeps every callback it was given and a push for a service      *)
(* invokes each of them; each callback fans out to every listener then     *)
(* recorded under the service.                                             *)
(***************************************************************************)
MaxAddListener == 2

\* registerInstanceListener: the listener is added to the set of each of its names
registerInstanceListener(map, listener) ==
    [s \in DOMAIN map \cup GetServiceNames(listener) |->
        IF s \in GetServiceNames(listener)
        THEN (IF s \in DOMAIN map THEN map[s] \cup {listener} ELSE {listener})
        ELSE map[s]]

\* the listeners recorded under the name, none when the name is not in the map
ListenersOf(map, serviceName) ==
    IF serviceName \in DOMAIN map THEN map[serviceName] ELSE {}

\* the orders in which HashSet.Values() may hand out the members of a set
Orders(S) ==
    {order \in [1..Cardinality(S) -> S] : \A l \in S : \E i \in DOMAIN order : order[i] = l}

\* the position of the first failing listener in the order, 0 when none fails
FirstFailing(order, failing) ==
    IF \E i \in DOMAIN order : order[i] \in failing
    THEN CHOOSE i \in DOMAIN order :
             order[i] \in failing /\ \A j \in 1..(i - 1) : order[j] \notin failing
    ELSE 0

\* the fan-out loop leaving at the first OnEvent that returns an error
DispatchLoopStopOnError(order, failing) ==
    LET stop == FirstFailing(order, failing)
        last == IF stop = 0 THEN Len(order) ELSE stop
    IN  [called |-> [l \in Listeners |-> Cardinality({i \in 1..last : order[i] = l})],
         e |-> IF stop # 0 THEN "err" ELSE "nil"]

\* the fan-out loop of the SubscribeCallback: OnEvent on every listener in
\* turn, e the result of the last call
DispatchLoop(order, failing) ==
    [called |-> [l \in Listeners |-> Cardinality({i \in DOMAIN order : order[i] = l})],
     e |-> IF Len(order) > 0 /\ order[Len(order)] \in failing THEN "err" ELSE "nil"]

\* the translation of one pushed record in the SubscribeCallback
PushInstance(service, serviceName, group) ==
    [ID |-> MetaGet(service.Metadata, idKey), ServiceName |-> serviceName,
     Host |-> service.Ip, Port |-> service.Port, Weight |-> Round(service.Weight),
     Enable |-> service.Enable, Healthy |-> TRUE,
     Metadata |-> MetaDelete(service.Metadata, idKey), GroupName |-> group, nil |-> FALSE]

\* the instances of the event the SubscribeCallback builds; the error it was
\* called with is logged and nothing else
PushInstances(services, err, serviceName, group) ==
    [i \in 1..Len(services) |-> PushInstance(services[i], serviceName, group)]

\* one run of the SubscribeCallback of a service: the OnEvent calls it makes
CallbackOnEvents(map, serviceName, order, failing) == DispatchLoop(order, failing).called

\* a backend record
PushedRecord(healthy, enable, weight) ==
    [Ip |-> "h1", Port |-> 20000, Weight |-> weight, Enable |-> enable,
     Healthy |-> healthy, Metadata |-> [k \in {"id", "zone"} |-> IF k = "id" THEN "i1" ELSE "z1"]]

\* the record lists the backend pushes
PushedServices ==
    {<<>>, <<PushedRecord(TRUE, TRUE, 15)>>, <<PushedRecord(FALSE, FALSE, 24)>>}

InitListen ==
    /\ IdleConc
    /\ IdleInit
    /\ IdleLisLock
    /\ IdleLock
    /\ IdleNew
    /\ IdleSvc
    /\ IdleURL
    /\ IdleInst
    /\ IdlePage
    /\ IdleReg
    /\ IdleRc
    /\ instanceListenerMap = EmptyListenerMap
    /\ subscriptions = [s \in ServiceNames |-> 0]
    /\ adding = NoAdding
    /\ returned = {}
    /\ lastPush = NoPush
    /\ addCalls = 0

\* AddListener is entered: registerInstanceListener runs
AddListenerEnter ==
    /\ ~adding.active
    /\ addCalls < MaxAddListener
    /\ \E listener \in Listeners :
          /\ instanceListenerMap' = registerInstanceListener(instanceListenerMap, listener)
          /\ adding' = [active |-> TRUE, listener |-> listener,
                        todo |-> GetServiceNames(listener)]
    /\ addCalls' = addCalls + 1
    /\ UNCHANGED <<subscriptions, returned, lastPush>>
    /\ UNCHANGED notLisVars

\* the next Subscribe of the loop succeeds; AddListener returns nil after the last
AddListenerSubscribe ==
    /\ adding.active
    /\ \E serviceName \in adding.todo :
          /\ subscriptions' = [subscriptions EXCEPT ![serviceName] = @ + 1]
          /\ IF adding.todo = {serviceName}
             THEN /\ adding' = NoAdding
                  /\ returned' = returned \cup {adding.listener}
             ELSE /\ adding' = [adding EXCEPT !.todo = @ \ {serviceName}]
                  /\ UNCHANGED returned
    /\ UNCHANGED <<instanceListenerMap, lastPush, addCalls>>
    /\ UNCHANGED notLisVars

\* the next Subscribe fails and AddListener returns its error; the backend may
\* or may not have kept the callback
AddListenerSubscribeFails ==
    /\ adding.active
    /\ \E serviceName \in adding.todo, kept \in BOOLEAN :
          subscriptions' = [subscriptions EXCEPT
                               ![serviceName] = IF kept THEN @ + 1 ELSE @]
    /\ adding' = NoAdding
    /\ returned' = returned \cup {adding.listener}
    /\ UNCHANGED <<instanceListenerMap, lastPush, addCalls>>
    /\ UNCHANGED notLisVars

\* the backend pushes the instances of a service: every callback subscribed for
\* it runs, one after the other
Push ==
    /\ \E serviceName \in ServiceNames, err \in BOOLEAN, services \in PushedServices,
          failing \in SUBSET Listeners :
       \E order \in Orders(ListenersOf(instanceListenerMap, serviceName)) :
          /\ subscriptions[serviceName] > 0
          /\ lastPush' = [service |-> serviceName, returned |-> returned,
                          onEvent |-> [l \in Listeners |->
                              subscriptions[serviceName] *
                                  CallbackOnEvents(instanceListenerMap, serviceName,
                                                   order, failing)[l]],
                          err |-> err, services |-> services,
                          instances |-> PushInstances(services, err, serviceName,
                                                      defaultGroup),
                          failing |-> failing,
                          e |-> DispatchLoop(order, failing).e]
    /\ UNCHANGED <<instanceListenerMap, subscriptions, adding, returned, addCalls>>
    /\ UNCHANGED notLisVars

NextListen == AddListenerEnter \/ AddListenerSubscribe \/ AddListenerSubscribeFails \/ Push

SpecListen == InitListen /\ [][NextListen]_vars

\* C1: once AddListener(L) has returned for a listener L whose service names
\* contain s, every backend push for s invokes L.OnEvent exactly once.
C1_ListenerFanOut ==
    lastPush.service # "none" =>
        \A l \in lastPush.returned :
            lastPush.service \in GetServiceNames(l) => lastPush.onEvent[l] = 1

\* C24: in every push for s, whichever listeners' OnEvent return an error,
\* each listener recorded under s has OnEvent called, and the listener map is
\* left as it was; this holds of every push, so also of those that follow one
\* with a failing listener.
C24_CallbackErrorsContained ==
    [][lastPush' # lastPush =>
          /\ instanceListenerMap' = instanceListenerMap
          /\ \A l \in ListenersOf(instanceListenerMap, lastPush'.service) :
                 lastPush'.onEvent[l] >= 1]_vars

\* a push for s1 with both listeners recorded under it, L1 failing
C24_Witness ==
    /\ lastPush.service = "s1"
    /\ ListenersOf(instanceListenerMap, "s1") = {"L1", "L2"}
    /\ lastPush.failing = {"L1"}
    /\ lastPush.onEvent["L1"] >= 1
    /\ lastPush.onEvent["L2"] >= 1

\* C27: the instances a push delivers for the backend's records are the
\* instances GetInstances returns for the same records: same id, service name,
\* host, port, rounded weight, enable flag, healthy flag, metadata and group.
C27_PushAgreesWithGetInstances ==
    lastPush.service # "none" =>
        lastPush.instances =
            GetInstances(FALSE, lastPush.services, lastPush.service, defaultGroup)

\* C28: once AddListener(L) has returned, with or without an error, every
\* service name under which L is recorded has a subscription at the backend.
C28_RecordedListenersSubscribed ==
    \A l \in returned : \A s \in DOMAIN instanceListenerMap :
        l \in instanceListenerMap[s] => subscriptions[s] > 0

\* C30: when the callback is called with an error, no listener's OnEvent is
\* called for that push.
C30_FailedPushSuppressed ==
    (lastPush.service # "none" /\ lastPush.err) =>
        \A l \in Listeners : lastPush.onEvent[l] = 0

\* ---------------------------------------------------------------------------
\* ReferenceConfig.Refer.  The reference's url text is a sequence of tokens:
\* the entries, and ";" for a run of separator characters with the blanks
\* around it.
\* ---------------------------------------------------------------------------
MaxRefer == 2
MaxTokens == 3

Semicolon == ";"
RegistryProtocol == "registry"
ServiceRegistryProtocol == "service-discovery-registry"
TRIPLE == "tri"
ClusterKeyFailover == "failover"
ClusterKeyZoneAware == "zoneAware"
ClusterKeyAdaptiveService == "adaptivesvc"
LoadBalanceKeyP2C == "p2c"
DefaultNamespace == "default"
DefaultClusterDomain == "cluster.local"
SVC == ".svc."
DefaultMeshPort == 80
PeerKey == "peer"
ForceUseTag == "force.use.tag"

\* gxstrings.RegSplit(text, "\\s*[;]+\\s*"): the pieces between the matches,
\* one more piece than there are matches, empty pieces kept.
RECURSIVE RegSplitFrom(_, _, _, _, _)
RegSplitFrom(text, i, piece, inMatch, result) ==
    IF i > Len(text) THEN Append(result, piece)
    ELSE IF text[i] = Semicolon
         THEN IF inMatch THEN RegSplitFrom(text, i + 1, piece, TRUE, result)
              ELSE RegSplitFrom(text, i + 1, "", TRUE, Append(result, piece))
         ELSE RegSplitFrom(text, i + 1, piece \o text[i], FALSE, result)

RegSplit(text) == RegSplitFrom(text, 1, "", FALSE, <<>>)

\* strconv.Itoa on the ports in use.
Itoa(n) == CASE n = 80 -> "80" [] n = 8080 -> "8080" [] OTHER -> "0"

getEnv(env, key, fallback) == IF env[key] # <<>> THEN env[key][1] ELSE fallback

MeshHost(r, root) ==
    r.ProvidedBy \o "." \o getEnv(root.env, "POD_NAMESPACE", DefaultNamespace) \o SVC
        \o getEnv(root.env, "CLUSTER_DOMAIN", DefaultClusterDomain) \o ":"
        \o Itoa(IF r.MeshProviderPort > 0 THEN r.MeshProviderPort ELSE DefaultMeshPort)

\* updateOrCreateMeshURL keeping a url the user gave
updateOrCreateMeshURLKeepUser(r, root) ==
    IF ~root.Consumer.MeshEnabled THEN [rc |-> r, panic |-> "none"]
    ELSE IF r.Protocol # TRIPLE THEN [rc |-> r, panic |-> "mesh: triple protocol expected"]
    ELSE IF r.ProvidedBy = "" THEN [rc |-> r, panic |-> "mesh: provided-by empty"]
    ELSE IF r.URL # <<>> THEN [rc |-> r, panic |-> "none"]
    ELSE [rc |-> [r EXCEPT !.URL = <<"tri://" \o MeshHost(r, root)>>], panic |-> "none"]

\* updateOrCreateMeshURL: the reference after the call, and the panic raised.
updateOrCreateMeshURL(r, root) ==
    IF ~root.Consumer.MeshEnabled THEN [rc |-> r, panic |-> "none"]
    ELSE IF r.Protocol # TRIPLE THEN [rc |-> r, panic |-> "mesh: triple protocol expected"]
    ELSE IF r.ProvidedBy = "" THEN [rc |-> r, panic |-> "mesh: provided-by empty"]
    ELSE [rc |-> [r EXCEPT !.URL = <<"tri://" \o MeshHost(r, root)>>], panic |-> "none"]

\* What the standard library makes of the url texts in use: QueryUnescape,
\* url.Parse, url.ParseQuery and net.SplitHostPort.
Parsed(scheme, ip, port, path, query) ==
    [unescapeErr |-> FALSE, parseErr |-> FALSE, queryErr |-> FALSE, splitErr |-> FALSE,
     Scheme |-> scheme, Username |-> "", Password |-> "",
     Host |-> ip \o ":" \o port, Ip |-> ip, Port |-> port, Path |-> path, query |-> query]

MeshNames == {"svc-a"}
MeshNamespaces == {DefaultNamespace, "ns1"}
MeshDomains == {DefaultClusterDomain, "corp.local"}
MeshPorts == {"80", "8080"}
MeshTexts ==
    {"tri://" \o n \o "." \o ns \o SVC \o d \o ":" \o pt :
        n \in MeshNames, ns \in MeshNamespaces, d \in MeshDomains, pt \in MeshPorts}

DirectText == "tri://10.0.0.1:20000"
RegistryText == "registry://127.0.0.1:2181"
DirectPathText == "dubbo://10.0.0.2:20880/com.Y?peer=false"
DirectClusterText == "tri://10.0.0.3:20000?cluster=failfast"
ServiceRegistryText == "service-discovery-registry://127.0.0.1:2181"
BadEscapeText == "tri://10.0.0.1:20000?a=%zz"

\* url texts put together from parts: scheme://[user:pass@]host[/path][?query]
UrlParts ==
    [scheme : {"tri", "registry"}, user : {"", "u:p@"},
     host : {"10.0.0.1:20000", "h1", "h1:x", "1:2:3"}, path : {"", "/com.Y"},
     query : {"", "?peer=false", "?registry.group=g1", "?a=1&b=2;c=3", "?a=%zz"}]

Compose(p) == p.scheme \o "://" \o p.user \o p.host \o p.path \o p.query

ComposedTexts == {Compose(p) : p \in UrlParts}

\* the library on a composed text: "%zz" is no escape, ":x" is no port, a
\* query pair holding ";" is dropped with an error and the pairs before it
\* kept, and "1:2:3" has too many colons for SplitHostPort
StdURLOfParts(p) ==
    [unescapeErr |-> p.query = "?a=%zz", parseErr |-> p.host = "h1:x",
     queryErr |-> p.query = "?a=1&b=2;c=3", splitErr |-> p.host = "1:2:3",
     Scheme |-> p.scheme,
     Username |-> IF p.user = "" THEN "" ELSE "u",
     Password |-> IF p.user = "" THEN "" ELSE "p",
     Host |-> p.host,
     Ip |-> IF p.host = "10.0.0.1:20000" THEN "10.0.0.1" ELSE "",
     Port |-> IF p.host = "10.0.0.1:20000" THEN "20000" ELSE "",
     Path |-> p.path,
     query |-> CASE p.query = "?peer=false" -> ValuesSet(EmptyParams, "peer", "false")
                 [] p.query = "?registry.group=g1" ->
                        ValuesSet(EmptyParams, "registry.group", "g1")
                 [] p.query = "?a=1&b=2;c=3" -> ValuesSet(EmptyParams, "a", "1")
                 [] OTHER -> EmptyParams]

StdURL(text) ==
    CASE text \in ComposedTexts ->
            StdURLOfParts(CHOOSE p \in UrlParts : Compose(p) = text)
      [] text = DirectText -> Parsed("tri", "10.0.0.1", "20000", "", EmptyParams)
      [] text = RegistryText -> Parsed("registry", "127.0.0.1", "2181", "", EmptyParams)
      [] text = DirectPathText ->
            Parsed("dubbo", "10.0.0.2", "20880", "/com.Y",
                   ValuesSet(EmptyParams, PeerKey, "false"))
      [] text = DirectClusterText ->
            Parsed("tri", "10.0.0.3", "20000", "", ValuesSet(EmptyParams, ClusterKey, "failfast"))
      [] text = ServiceRegistryText ->
            Parsed(ServiceRegistryProtocol, "127.0.0.1", "2181", "", EmptyParams)
      [] text = BadEscapeText ->
            [Parsed("", "", "", "", EmptyParams) EXCEPT !.unescapeErr = TRUE]
      [] text \in MeshTexts ->
            LET h == CHOOSE x \in [n : MeshNames, ns : MeshNamespaces, d : MeshDomains,
                                   pt : MeshPorts] :
                        text = "tri://" \o x.n \o "." \o x.ns \o SVC \o x.d \o ":" \o x.pt
            IN Parsed("tri", h.n \o "." \o h.ns \o SVC \o h.d, h.pt, "", EmptyParams)
      [] OTHER -> [Parsed("", "", "", "", EmptyParams) EXCEPT !.parseErr = TRUE]

\* NewURL(urlString): the URL built so far and the error.  ParseQuery hands
\* back the pairs it could parse together with its error, and the fields are
\* filled before the host is split.
NewURL(urlString) ==
    LET s == [NoURL EXCEPT !.nil = FALSE]
        lib == StdURL(urlString)
        filled == [s EXCEPT !.params = lib.query, !.PrimitiveURL = urlString,
                            !.Protocol = lib.Scheme, !.Username = lib.Username,
                            !.Password = lib.Password, !.Location = lib.Host,
                            !.Path = lib.Path, !.Ip = lib.Ip, !.Port = lib.Port]
        group == ValuesGet(lib.query, "registry.group")
    IN IF urlString = "" THEN [url |-> s, err |-> "nil"]
       ELSE IF lib.unescapeErr THEN [url |-> s, err |-> "URL.QueryUnescape"]
       ELSE IF lib.parseErr THEN [url |-> s, err |-> "URL.Parse"]
       ELSE IF lib.queryErr
            THEN [url |-> [s EXCEPT !.params = lib.query], err |-> "URL.ParseQuery"]
       ELSE IF lib.splitErr THEN [url |-> filled, err |-> "net.SplitHostPort"]
       ELSE IF group # ""
            THEN [url |-> [filled EXCEPT !.PrimitiveURL = urlString \o "/" \o group],
                  err |-> "nil"]
       ELSE [url |-> filled, err |-> "nil"]

FormatBool(b) == IF b THEN "true" ELSE "false"

\* getURLMap: user params first, then the framework's keys.  Now is the text
\* of time.Now().Unix(); the release key, the filter chain and the per-method
\* keys are left out.
Now == "1700000000"

\* the map a run of urlMap.Set(key, value) calls leaves on top of params: the
\* last value set for a key, and the keys of params that were not set
SetAll(params, pairs) ==
    LET set == {pairs[i][1] : i \in 1..Len(pairs)}
        last(k) == CHOOSE i \in 1..Len(pairs) :
                       /\ pairs[i][1] = k
                       /\ \A j \in (i + 1)..Len(pairs) : pairs[j][1] # k
    IN [k \in (DOMAIN params) \cup set |->
            IF k \in set THEN <<pairs[last(k)][2]>> ELSE params[k]]

getURLMap(r, root) ==
    SetAll([k \in DOMAIN r.Params |-> <<r.Params[k][1]>>],
        << <<"interface", r.InterfaceName>>, <<TimestampKey, Now>>,
           <<ClusterKey, r.Cluster>>, <<LoadbalanceKey, r.Loadbalance>>,
           <<RetriesKey, r.Retries>>, <<"group", r.Group>>, <<"version", r.Version>>,
           <<"generic", r.Generic>>, <<"registry.role", "0">>,
           <<"provided-by", r.ProvidedBy>>, <<"serialization", r.Serialization>>,
           <<"tracing-config", r.TracingKey>>, <<"side", "consumer">> >>
        \o (IF r.RequestTimeout # "" THEN << <<TimeoutKey, r.RequestTimeout>> >> ELSE <<>>)
        \o << <<"async", FormatBool(r.Async)>>, <<"sticky", FormatBool(r.Sticky)>>,
              <<ApplicationKey, root.Application.Name>>,
              <<"organization", root.Application.Organization>>,
              <<"name", root.Application.Name>>, <<"module", root.Application.Module>>,
              <<"app.version", root.Application.Version>>,
              <<"owner", root.Application.Owner>>,
              <<"environment", root.Application.Environment>> >>)

\* the interface-level URL cfgURL of Refer, force.use.tag included
cfgURL(r, root) ==
    LET params == SetAll(getURLMap(r, root),
                         << <<"bean.name", r.id>>, <<"metadata-type", r.metaDataType>> >>)
    IN MkURL(r.Protocol, ":", "/" \o r.InterfaceName,
             IF r.ForceTag THEN ValuesAdd(params, ForceUseTag, "true") ELSE params, <<>>)

\* The extensions registered at startup, and a lookup that misses panics.
RegisteredProtocols == {"tri", "dubbo", RegistryProtocol}
RegisteredClusters ==
    {ClusterKeyFailover, ClusterKeyZoneAware, ClusterKeyAdaptiveService, "failfast"}
RegisteredProxyFactories == {"default"}

\* LoadRegistries(ids, registries, CONSUMER): one registry URL for every
\* configured registry the ids select, all of them when no id is given.
RegistryOrder == <<"r1", "r2">>

LoadRegistries(ids, registries) ==
    LET selected(id) ==
            /\ id \in registries
            /\ \/ Len(ids) = 0
               \/ \E i \in 1..Len(ids) : ids[i] = id
        RECURSIVE Go(_, _)
        Go(i, acc) ==
            IF i > Len(RegistryOrder) THEN acc
            ELSE Go(i + 1,
                    IF selected(RegistryOrder[i])
                    THEN Append(acc, MkURL(RegistryProtocol, RegistryOrder[i] \o ":2181", "",
                                           ValuesSet(EmptyParams, "registry.role", "0"), <<>>))
                    ELSE acc)
    IN Go(1, <<>>)

\* The loop over the entries of a user-supplied url: the urls appended to
\* rc.urls so far and the panic that stopped it.
RECURSIVE ExpandUserURLs(_, _, _, _, _)
ExpandUserURLs(urlStrings, i, urls, cfg, interfaceName) ==
    IF i > Len(urlStrings) THEN [urls |-> urls, panic |-> "none"]
    ELSE LET parsed == NewURL(urlStrings[i])
             serviceURL == parsed.url
             pathed == IF serviceURL.Path = ""
                       THEN [serviceURL EXCEPT !.Path = "/" \o interfaceName]
                       ELSE serviceURL
             newURL == AddParam(MergeURL(pathed, cfg), PeerKey, "true")
         IN IF parsed.err # "nil"
            THEN [urls |-> urls, panic |-> "url configuration error"]
            ELSE IF serviceURL.Protocol = RegistryProtocol
            THEN ExpandUserURLs(urlStrings, i + 1,
                                Append(urls, [serviceURL EXCEPT !.SubURL = <<cfg>>]),
                                cfg, interfaceName)
            ELSE ExpandUserURLs(urlStrings, i + 1, Append(urls, newURL), cfg, interfaceName)

\* step 7 of Refer: rc.urls after the expansion
SubscriptionURLs(r, root, cfg) ==
    IF r.URL # <<>>
    THEN ExpandUserURLs(RegSplit(r.URL), 1, r.urls, cfg, r.InterfaceName)
    ELSE LET loaded == LoadRegistries(r.RegistryIDs, root.Registries)
         IN [urls |-> [i \in 1..Len(loaded) |-> [loaded[i] EXCEPT !.SubURL = <<cfg>>]],
             panic |-> "none"]

\* the invoker a protocol returns for a url; filtered when the filter chain
\* wraps it
ProtocolRefer(u, filtered) ==
    [url |-> <<u>>, cluster |-> "", invokers |-> <<>>, filtered |-> filtered, nil |-> FALSE]

\* step 8: the invokers acquired and the panic of a protocol lookup that misses
RECURSIVE AcquireInvokers(_, _, _, _)
AcquireInvokers(urls, i, invokers, filtered) ==
    IF i > Len(urls) THEN [invokers |-> invokers, panic |-> "none"]
    ELSE LET name == IF urls[i].Protocol = ServiceRegistryProtocol THEN RegistryProtocol
                     ELSE urls[i].Protocol
         IN IF name \notin RegisteredProtocols
            THEN [invokers |-> invokers, panic |-> "unknown protocol"]
            ELSE AcquireInvokers(urls, i + 1,
                                 Append(invokers, ProtocolRefer(urls[i], filtered)), filtered)

\* regURL after the loop: whether some url has the protocol registry
HasRegURL(urls) == \E i \in 1..Len(urls) : urls[i].Protocol = RegistryProtocol

\* cluster.Join(static.NewDirectory(invokers))
Join(hitClu, invokers) ==
    [url |-> <<>>, cluster |-> hitClu, invokers |-> invokers, filtered |-> FALSE, nil |-> FALSE]

InvokerCluster(inv) ==
    IF inv.url # <<>> THEN GetParam(inv.url[1], ClusterKey, ClusterKeyZoneAware)
    ELSE ClusterKeyFailover

\* step 9: rc.invoker after the join and the panic raised
ClusterJoin(r, invokers, urls) ==
    LET joined(hitClu) ==
            IF hitClu \notin RegisteredClusters
            THEN [invoker |-> IF Len(invokers) = 1 THEN invokers[1] ELSE r.invoker,
                  panic |-> "unknown cluster"]
            ELSE [invoker |-> Join(hitClu, invokers), panic |-> "none"]
    IN IF Len(invokers) = 1
       THEN IF r.URL # <<>> THEN joined(InvokerCluster(invokers[1]))
            ELSE [invoker |-> invokers[1], panic |-> "none"]
       ELSE IF HasRegURL(urls) THEN joined(ClusterKeyZoneAware)
       ELSE IF Len(invokers) = 0
            THEN [invoker |-> r.invoker, panic |-> "index out of range [0] with length 0"]
       ELSE joined(InvokerCluster(invokers[1]))

\* step 10: the proxy of the factory the consumer section names
GetProxy(r, root, invoker, cfg) ==
    LET name == IF root.Consumer.ProxyFactory = "" THEN "default"
                ELSE root.Consumer.ProxyFactory
    IN IF name \notin RegisteredProxyFactories
       THEN [pxy |-> r.pxy, panic |-> "unknown proxy factory"]
       ELSE [pxy |-> [invoker |-> invoker, async |-> r.Async, url |-> <<cfg>>,
                      nil |-> FALSE],
             panic |-> "none"]

\* step 1 of Refer: the adaptive service forces the cluster and the load balance
AdaptiveService(r, root) ==
    IF root.Consumer.AdaptiveService
    THEN [r EXCEPT !.Cluster = ClusterKeyAdaptiveService, !.Loadbalance = LoadBalanceKeyP2C]
    ELSE r

\* The url texts of the references: entries separated by runs of ";".
Entries == {DirectText, RegistryText, DirectPathText, DirectClusterText,
            ServiceRegistryText, BadEscapeText}

RECURSIVE TokenSeqs(_)
TokenSeqs(n) ==
    IF n = 0 THEN {<<>>}
    ELSE LET shorter == TokenSeqs(n - 1)
         IN shorter \cup
            {Append(t, x) : t \in {u \in shorter : Len(u) = n - 1},
                            x \in Entries \cup {Semicolon}}

UrlTexts ==
    {t \in TokenSeqs(MaxTokens) :
        \A i \in 1..(Len(t) - 1) : t[i] = Semicolon \/ t[i + 1] = Semicolon}

References ==
    {[NoReference EXCEPT !.InterfaceName = "com.X", !.URL = u, !.Protocol = p,
                         !.RegistryIDs = <<"r1">>, !.Cluster = cl, !.ProvidedBy = pb,
                         !.MeshProviderPort = port, !.id = "com.X"] :
        u \in UrlTexts, p \in {"tri", "dubbo"}, cl \in {ClusterKeyFailover, "nocluster"},
        pb \in {"", "svc-a"}, port \in {0, 8080}}

\* the environments: neither variable set, the namespace set, both set
Environments ==
    {[POD_NAMESPACE |-> <<>>, CLUSTER_DOMAIN |-> <<>>],
     [POD_NAMESPACE |-> <<"ns1">>, CLUSTER_DOMAIN |-> <<>>],
     [POD_NAMESPACE |-> <<"ns1">>, CLUSTER_DOMAIN |-> <<"corp.local">>]}

Roots ==
    {[NoRoot EXCEPT !.Consumer.AdaptiveService = a, !.Consumer.MeshEnabled = m,
                    !.Registries = regs, !.Application.Name = "app", !.env = env] :
        a \in BOOLEAN, m \in BOOLEAN, regs \in {{}, {"r1"}}, env \in Environments}

InitRefer ==
    /\ IdleConc
    /\ IdleInit
    /\ IdleLisLock
    /\ IdleLock
    /\ IdleNew
    /\ IdleSvc
    /\ IdleURL
    /\ IdleInst
    /\ IdlePage
    /\ IdleReg
    /\ IdleLis
    /\ rc \in References
    /\ rootConfig \in Roots
    /\ referOutcome = "none"
    /\ invokersAcquired = 0
    /\ referCalls = 0

\* Refer(srv) on the reference.  Each step works on the result of the one
\* before; the first panic ends the call, and the run of the program, with the
\* fields assigned so far.
Refer ==
    /\ referCalls < MaxRefer
    /\ referOutcome \in {"none", "ok"}
    /\ \E r1 \in {AdaptiveService(rc, rootConfig)} :
       \E cfg \in {cfgURL(r1, rootConfig)} :
       \E mesh \in {updateOrCreateMeshURL(r1, rootConfig)} :
       \E sub \in {SubscriptionURLs(mesh.rc, rootConfig, cfg)} :
       \E r3 \in {[mesh.rc EXCEPT !.urls = sub.urls]} :
       \E acq \in {AcquireInvokers(r3.urls, 1, <<>>, r3.URL # <<>>)} :
       \E join \in {ClusterJoin(r3, acq.invokers, r3.urls)} :
       \E r4 \in {[r3 EXCEPT !.invoker = join.invoker]} :
       \E prox \in {GetProxy(r4, rootConfig, join.invoker, cfg)} :
           IF mesh.panic # "none"
           THEN /\ rc' = mesh.rc
                /\ referOutcome' = mesh.panic
                /\ UNCHANGED invokersAcquired
           ELSE IF sub.panic # "none"
           THEN /\ rc' = r3
                /\ referOutcome' = sub.panic
                /\ UNCHANGED invokersAcquired
           ELSE IF acq.panic # "none"
           THEN /\ rc' = r3
                /\ referOutcome' = acq.panic
                /\ invokersAcquired' = invokersAcquired + Len(acq.invokers)
           ELSE IF join.panic # "none"
           THEN /\ rc' = r4
                /\ referOutcome' = join.panic
                /\ invokersAcquired' = invokersAcquired + Len(acq.invokers)
           ELSE /\ rc' = [r4 EXCEPT !.pxy = prox.pxy]
                /\ referOutcome' = IF prox.panic # "none" THEN prox.panic ELSE "ok"
                /\ invokersAcquired' = invokersAcquired + Len(acq.invokers)
    /\ referCalls' = referCalls + 1
    /\ UNCHANGED <<rootConfig, notRcVars>>

NextRefer == Refer

SpecRefer == InitRefer /\ [][NextRefer]_vars

NoUserURL == rc.URL = <<>>

\* C8: when no url is given and the registry lookup returns zero urls, Refer
\* completes without a panic and stores a proxy on the reference.
C8_ZeroURLsNotFatal ==
    (referCalls > 0 /\ NoUserURL /\ Len(rc.urls) = 0) =>
        (referOutcome = "ok" /\ ~rc.pxy.nil)

\* the number of subscription urls the configuration stands for
ConfiguredURLs ==
    IF NoUserURL THEN Len(LoadRegistries(rc.RegistryIDs, rootConfig.Registries))
    ELSE Len(RegSplit(rc.URL))

\* C9: after any number of Refer calls the reference's url list holds each
\* configured subscription url once, and no invoker was acquired twice.
C9_ReferResolvesOnce ==
    (referCalls > 0 /\ referOutcome = "ok") =>
        (Len(rc.urls) = ConfiguredURLs /\ invokersAcquired = ConfiguredURLs)

\* C10: Refer panics only on a mesh-mode misconfiguration or an unknown
\* cluster name.
C10_PanicsOnlyOnMeshOrCluster ==
    referOutcome \in {"none", "ok", "mesh: triple protocol expected",
                      "mesh: provided-by empty", "unknown cluster"}

\* the url text the mesh rewrite is specified to produce
MeshURLText ==
    "tri://" \o rc.ProvidedBy \o "."
        \o (IF rootConfig.env.POD_NAMESPACE = <<>> THEN "default"
            ELSE rootConfig.env.POD_NAMESPACE[1])
        \o ".svc."
        \o (IF rootConfig.env.CLUSTER_DOMAIN = <<>> THEN "cluster.local"
            ELSE rootConfig.env.CLUSTER_DOMAIN[1])
        \o ":" \o (IF rc.MeshProviderPort > 0 THEN "8080" ELSE "80")

MeshPanics == {"mesh: triple protocol expected", "mesh: provided-by empty"}

\* C11: with mesh mode on, a Refer call panics before any invoker is acquired
\* when the protocol is not tri or provided-by is empty, and otherwise replaces
\* the reference's url, user-supplied or not, by
\* tri://<provided-by>.<namespace>.svc.<domain>:<port>; with mesh mode off the
\* call leaves the url as it was.
C11_MeshRewrite ==
    [][referCalls' = referCalls + 1 =>
          IF rootConfig.Consumer.MeshEnabled
          THEN IF rc.Protocol # "tri" \/ rc.ProvidedBy = ""
               THEN /\ referOutcome' \in MeshPanics
                    /\ invokersAcquired' = invokersAcquired
               ELSE /\ referOutcome' \notin MeshPanics
                    /\ rc'.URL = <<MeshURLText>>
          ELSE /\ rc'.URL = rc.URL
               /\ referOutcome' \notin MeshPanics]_vars

\* a Refer with mesh mode on left the url built from both environment
\* variables and the reference's own port, and subscribed to it
C11_Witness ==
    /\ referCalls = 1
    /\ rootConfig.Consumer.MeshEnabled
    /\ rc.MeshProviderPort = 8080
    /\ rc.URL = <<"tri://svc-a.ns1.svc.corp.local:8080">>
    /\ Len(rc.urls) = 1
    /\ rc.urls[1].Location = "svc-a.ns1.svc.corp.local:8080"
    /\ referOutcome = "ok"

\* the entry of the url text the i-th subscription url was made from
EntryOf(i) ==
    LET split == RegSplit(rc.URL) IN NewURL(split[((i - 1) % Len(split)) + 1]).url

\* C12: every subscription url made from a non-registry entry of the user's
\* url text answers "true" for peer, has the path /<interface> when the entry
\* had none, and keeps the entry's protocol, host and port.
C12_DirectEndpointsPeer ==
    (referCalls > 0 /\ rc.URL # <<>>) =>
        \A i \in 1..Len(rc.urls) :
            rc.urls[i].Protocol # "registry" =>
                /\ GetParam(rc.urls[i], "peer", "") = "true"
                /\ rc.urls[i].Path = IF EntryOf(i).Path = "" THEN "/" \o rc.InterfaceName
                                     ELSE EntryOf(i).Path
                /\ rc.urls[i].Protocol = EntryOf(i).Protocol
                /\ rc.urls[i].Location = EntryOf(i).Location
                /\ rc.urls[i].Ip = EntryOf(i).Ip
                /\ rc.urls[i].Port = EntryOf(i).Port

\* some subscription url is a registry url, under either protocol name
AnyRegistryURL ==
    \E i \in 1..Len(rc.urls) :
        rc.urls[i].Protocol \in {"registry", "service-discovery-registry"}

\* C13: when Refer joined more than one invoker, the cluster is zoneAware if
\* some subscription url is a registry url (registry or
\* service-discovery-registry), and otherwise failover or the cluster declared
\* on the first invoker's url.
C13_ClusterSelection ==
    (referOutcome = "ok" /\ Len(rc.invoker.invokers) > 1) =>
        IF AnyRegistryURL THEN rc.invoker.cluster = "zoneAware"
        ELSE rc.invoker.cluster \in
                {"failover", ValuesGet(rc.invoker.invokers[1].url[1].params, "cluster")}

(***************************************************************************)
(* nacosServiceDiscovery.GetServices: one step per round of its loop.  The *)
(* backend holds a list of service names and answers a page request with   *)
(* the names of the page and a count; the nacos server counts all the      *)
(* services it holds (countIsTotal), the other reading counts the page.    *)
(***************************************************************************)
MaxServices == 3
DefaultPageSize == 2

BackendServiceNames == {"svc-a", "svc-b", "svc-c", "providers:com.X::"}

\* re.MatchString(e) for the pattern of interface-level data ids
MatchesProviders(e) == e = "providers:com.X::"

MinOf(a, b) == IF a < b THEN a ELSE b

\* GetAllServicesInfo(PageSize, PageNo, GroupName)
GetAllServicesInfo(backend, pageNo, size) ==
    LET doms == SubSeq(backend.names, (pageNo - 1) * size + 1,
                       MinOf(pageNo * size, Len(backend.names)))
    IN [Doms |-> doms,
        Count |-> IF backend.countIsTotal THEN Len(backend.names) ELSE Len(doms)]

\* every page from this one on is empty
PastLastPage == MaxServices + 1

\* pageNo++, the page numbers beyond PastLastPage folded onto it and its
\* successor in turn, so that the counter of a loop that goes on keeps moving
NextPageNo(pageNo) == IF pageNo > PastLastPage THEN PastLastPage ELSE pageNo + 1

RECURSIVE DistinctSeqs(_, _)
DistinctSeqs(S, n) ==
    IF n = 0 THEN {<<>>}
    ELSE {<<>>} \cup
         UNION {{<<x>> \o t : t \in {u \in DistinctSeqs(S, n - 1) :
                                        \A i \in 1..Len(u) : u[i] # x}} : x \in S}

InitServices ==
    /\ IdleConc
    /\ IdleInit
    /\ IdleLisLock
    /\ IdleLock
    /\ IdleNew
    /\ IdleURL
    /\ IdleInst
    /\ IdlePage
    /\ IdleReg
    /\ IdleLis
    /\ IdleRc
    /\ backendServices \in [names : DistinctSeqs(BackendServiceNames, MaxServices),
                            countIsTotal : BOOLEAN]
    /\ getServices = NoGetServices

\* GetServices is called: res := gxset.NewSet(), pageNo := 1
GetServicesBegin ==
    /\ getServices.pc = "idle"
    /\ getServices' = [pc |-> "loop", pageNo |-> 1, res |-> {}]
    /\ UNCHANGED <<backendServices, notSvcVars>>

\* whether the loop returns after a page with this count
StopAfterPage(count) == count < DefaultPageSize

\* a round of the loop whose backend call succeeds
GetServicesPage ==
    /\ getServices.pc = "loop"
    /\ LET services == GetAllServicesInfo(backendServices, getServices.pageNo,
                                          DefaultPageSize)
           added == {services.Doms[i] : i \in 1..Len(services.Doms)}
           res == getServices.res \cup {e \in added : ~MatchesProviders(e)}
       IN getServices' =
              IF StopAfterPage(services.Count)
              THEN [getServices EXCEPT !.pc = "returned", !.res = res]
              ELSE [getServices EXCEPT !.res = res,
                                       !.pageNo = NextPageNo(@)]
    /\ UNCHANGED <<backendServices, notSvcVars>>

\* a round of the loop whose backend call returns an error
GetServicesPageFails ==
    /\ getServices.pc = "loop"
    /\ getServices' = [getServices EXCEPT !.pc = "returned"]
    /\ UNCHANGED <<backendServices, notSvcVars>>

NextServices == GetServicesBegin \/ GetServicesPage \/ GetServicesPageFails

SpecServices == InitServices /\ [][NextServices]_vars

\* the loop goes on as long as the backend answers
SpecServicesFair == SpecServices /\ WF_vars(GetServicesPage)

\* C15: a GetServices call that was started returns, whatever finite list of
\* services the backend holds.
C15_GetServicesTerminates ==
    (getServices.pc = "loop") ~> (getServices.pc = "returned")

\* ---------------------------------------------------------------------------
\* NewURL on its own: called once with any of the url texts.
\* ---------------------------------------------------------------------------
InitNewURL ==
    /\ IdleConc
    /\ IdleInit
    /\ IdleLisLock
    /\ IdleLock
    /\ IdleURL
    /\ IdleInst
    /\ IdlePage
    /\ IdleReg
    /\ IdleLis
    /\ IdleRc
    /\ IdleSvc
    /\ newURLInput \in ComposedTexts \cup Entries \cup {""}
    /\ newURLResult = NoNewURL

DoNewURL ==
    /\ ~newURLResult.called
    /\ newURLResult' = [url |-> NewURL(newURLInput).url, err |-> NewURL(newURLInput).err,
                        called |-> TRUE]
    /\ UNCHANGED <<newURLInput, notNewVars>>

NextNewURL == DoNewURL

SpecNewURL == InitNewURL /\ [][NextNewURL]_vars

\* C16: whenever NewURL returns an error, the URL it returns has no protocol,
\* location, path, username, password or parameter filled from the input.
C16_EmptyURLOnError ==
    (newURLResult.called /\ newURLResult.err # "nil") =>
        /\ newURLResult.url.Protocol = ""
        /\ newURLResult.url.Location = ""
        /\ newURLResult.url.Path = ""
        /\ newURLResult.url.Username = ""
        /\ newURLResult.url.Password = ""
        /\ newURLResult.url.params = EmptyParams

(***************************************************************************)
(* One URL shared by a writing and a reading goroutine.  Every method is   *)
(* split at its lock operations: the writer takes paramsLock, changes the  *)
(* map, releases; a locked reader takes the read lock, reads, releases.    *)
(* MergeURL reads the other URL's map through GetParams, which returns the *)
(* map itself, and ranges over it key by key.                              *)
(***************************************************************************)
MaxLockOps == 3
LockKeys == {"a", "b"}
LockValues == {"1", "2"}
WriterOps == {"SetParam", "AddParam", "DelParam"}
LockedReaderOps == {"GetParam", "GetNonDefaultParam", "RangeParams", "String", "Clone"}

\* url.Values.Del
ValuesDel(params, key) == [k \in DOMAIN params \ {key} |-> params[k]]

\* sync.RWMutex: Lock waits for the holders to leave, RLock for the writer
CanLock == ~paramsLock.writer /\ paramsLock.readers = 0
CanRLock == ~paramsLock.writer

\* String takes the write lock for its read (url.go line 375)
TakesWriteLock(op) == op = "String"

\* SetParam, AddParam, DelParam: c.paramsLock.Lock()
WriterLock ==
    /\ writer.pc = "idle"
    /\ lockOps < MaxLockOps
    /\ CanLock
    /\ \E op \in WriterOps, key \in LockKeys, value \in LockValues :
          writer' = [pc |-> "write", op |-> op, key |-> key, value |-> value]
    /\ paramsLock' = [paramsLock EXCEPT !.writer = TRUE]
    /\ lockOps' = lockOps + 1
    /\ UNCHANGED <<sharedParams, reader, notLockVars>>

\* the change to the map each writing method makes under the lock
WriteEffect(params, op, key, value) ==
    IF op = "SetParam" THEN ValuesSet(params, key, value)
    ELSE IF op = "AddParam" THEN ValuesAdd(params, key, value)
    ELSE ValuesDel(params, key)

\* c.params.Set / Add / Del, then the deferred Unlock
WriterWrite ==
    /\ writer.pc = "write"
    /\ sharedParams' = WriteEffect(sharedParams, writer.op, writer.key, writer.value)
    /\ writer' = [writer EXCEPT !.pc = "unlock"]
    /\ UNCHANGED <<paramsLock, reader, lockOps, notLockVars>>

WriterUnlock ==
    /\ writer.pc = "unlock"
    /\ paramsLock' = [paramsLock EXCEPT !.writer = FALSE]
    /\ writer' = NoWriter
    /\ UNCHANGED <<sharedParams, reader, lockOps, notLockVars>>

\* GetParam, GetNonDefaultParam, RangeParams, Clone: c.paramsLock.RLock();
\* String: c.paramsLock.Lock()
ReaderLock ==
    /\ reader.pc = "idle"
    /\ lockOps < MaxLockOps
    /\ \E op \in LockedReaderOps, key \in LockKeys :
          /\ IF TakesWriteLock(op) THEN CanLock ELSE CanRLock
          /\ reader' = [NoReader EXCEPT !.pc = "read", !.op = op, !.key = key,
                                        !.locked = TRUE]
          /\ paramsLock' = IF TakesWriteLock(op)
                           THEN [paramsLock EXCEPT !.writer = TRUE]
                           ELSE [paramsLock EXCEPT !.readers = @ + 1]
    /\ lockOps' = lockOps + 1
    /\ UNCHANGED <<sharedParams, writer, notLockVars>>

\* what a locked read takes from the map: one key's values, or every key's
ReadOf(params, op, key) ==
    IF op \in {"GetParam", "GetNonDefaultParam"}
    THEN [k \in {key} \cap DOMAIN params |-> params[k]]
    ELSE params

\* the read made under the lock
ReaderRead ==
    /\ reader.pc = "read"
    /\ reader' = [reader EXCEPT !.pc = "unlock",
                                !.got = ReadOf(sharedParams, reader.op, reader.key)]
    /\ UNCHANGED <<sharedParams, paramsLock, writer, lockOps, notLockVars>>

\* the deferred RUnlock (Unlock for String)
ReaderUnlock ==
    /\ reader.pc = "unlock"
    /\ paramsLock' = IF TakesWriteLock(reader.op)
                     THEN [paramsLock EXCEPT !.writer = FALSE]
                     ELSE [paramsLock EXCEPT !.readers = @ - 1]
    /\ reader' = [reader EXCEPT !.pc = "idle", !.locked = FALSE]
    /\ UNCHANGED <<sharedParams, writer, lockOps, notLockVars>>

\* whether GetParams takes the read lock before it hands out the map
GetParamsLocks == FALSE

\* MergeURL: anotherUrl.GetParams() hands out the map, the range begins
MergeGetParams ==
    /\ reader.pc = "idle"
    /\ lockOps < MaxLockOps
    /\ GetParamsLocks => CanRLock
    /\ reader' = [NoReader EXCEPT !.pc = "range", !.op = "MergeURL",
                                  !.todo = DOMAIN sharedParams,
                                  !.locked = GetParamsLocks]
    /\ paramsLock' = IF GetParamsLocks THEN [paramsLock EXCEPT !.readers = @ + 1]
                     ELSE paramsLock
    /\ lockOps' = lockOps + 1
    /\ UNCHANGED <<sharedParams, writer, notLockVars>>

\* one iteration of the range over the other URL's map: the key's values as
\* the map holds them now; an iteration that meets a write in progress is a
\* data race, whose outcome is the old values, the new ones, or a crash
MergeRange ==
    /\ reader.pc = "range"
    /\ reader.todo # {}
    /\ \E key \in reader.todo :
          LET racing == writer.pc = "write"
              after == WriteEffect(sharedParams, writer.op, writer.key, writer.value)
              views == IF racing THEN {sharedParams, after} ELSE {sharedParams}
          IN \/ \E view \in views :
                   reader' = [reader EXCEPT
                       !.todo = @ \ {key},
                       !.raced = @ \/ racing,
                       !.got = IF key \in DOMAIN view
                               THEN ValuesPut(@, key, view[key]) ELSE @]
             \/ /\ racing
                /\ reader' = [reader EXCEPT !.pc = "fatal", !.raced = TRUE]
    /\ UNCHANGED <<sharedParams, paramsLock, writer, lockOps, notLockVars>>

\* the range is over
MergeRangeDone ==
    /\ reader.pc = "range"
    /\ reader.todo = {}
    /\ paramsLock' = IF reader.locked THEN [paramsLock EXCEPT !.readers = @ - 1]
                     ELSE paramsLock
    /\ reader' = [reader EXCEPT !.pc = "idle", !.locked = FALSE]
    /\ UNCHANGED <<sharedParams, writer, lockOps, notLockVars>>

InitLock ==
    /\ IdleConc
    /\ IdleInit
    /\ IdleLisLock
    /\ IdleURL /\ IdleInst /\ IdlePage /\ IdleReg /\ IdleLis /\ IdleRc /\ IdleSvc
    /\ IdleNew
    /\ sharedParams \in {EmptyParams} \cup
            {[k \in ks |-> <<"0">>] : ks \in SUBSET LockKeys \ {{}}}
    /\ paramsLock = [writer |-> FALSE, readers |-> 0]
    /\ writer = NoWriter
    /\ reader = NoReader
    /\ lockOps = 0

NextLock ==
    \/ WriterLock
    \/ WriterWrite
    \/ WriterUnlock
    \/ ReaderLock
    \/ ReaderRead
    \/ ReaderUnlock
    \/ MergeGetParams
    \/ MergeRange
    \/ MergeRangeDone

SpecLock == InitLock /\ [][NextLock]_vars

\* C17: every read of a URL's parameter map is made with paramsLock held, so
\* no read of the map is in progress while a SetParam, AddParam or DelParam
\* on the same URL is changing it.
C17_ReadsHoldParamsLock ==
    /\ reader.pc \in {"read", "range"} => reader.locked
    /\ ~(reader.pc \in {"read", "range"} /\ writer.pc = "write")
    /\ ~reader.raced

(***************************************************************************)
(* The adapter with its calls interleaved: AddListener split at its lock   *)
(* operations, at each store into the listener map and at each Subscribe;  *)
(* a run of a SubscribeCallback split at its read of the map; and the      *)
(* Register, Unregister, Update and Destroy calls of the same adapter.     *)
(***************************************************************************)
MaxAdapterOps == 2

\* the calls made on the adapter so far stay below the bound
AdapterBudget == calls + addCalls < MaxAdapterOps

\* the body of the loop of registerInstanceListener with every set replaced
recordListenerReplacing(map, serviceName, listener) ==
    [s \in DOMAIN map \cup {serviceName} |->
        IF s = serviceName THEN {listener} ELSE map[s]]

\* the body of the loop of registerInstanceListener: a new set for a name not
\* yet in the map, the listener added to the set of a name that is
recordListener(map, serviceName, listener) ==
    [s \in DOMAIN map \cup {serviceName} |->
        IF s = serviceName
        THEN (IF s \in DOMAIN map THEN map[s] \cup {listener} ELSE {listener})
        ELSE map[s]]

\* AddListener calls registerInstanceListener: n.listenerLock.Lock()
AddListenerLock ==
    /\ addListener.pc = "idle"
    /\ addCalls < MaxAddListener
    /\ AdapterBudget
    /\ listenerLock = "free"
    /\ \E listener \in Listeners :
          addListener' = [pc |-> "write", listener |-> listener,
                          write |-> GetServiceNames(listener),
                          todo |-> GetServiceNames(listener)]
    /\ listenerLock' = "AddListener"
    /\ addCalls' = addCalls + 1
    /\ UNCHANGED <<instanceListenerMap, subscriptions, adding, returned, lastPush, pushing>>
    /\ UNCHANGED notAdapterVars

\* one round of the loop of registerInstanceListener
AddListenerWrite ==
    /\ addListener.pc = "write"
    /\ \E serviceName \in addListener.write :
          /\ instanceListenerMap' =
                 recordListener(instanceListenerMap, serviceName, addListener.listener)
          /\ addListener' = [addListener EXCEPT
                 !.write = @ \ {serviceName},
                 !.pc = IF addListener.write = {serviceName} THEN "unlock" ELSE "write"]
    /\ UNCHANGED <<subscriptions, adding, returned, lastPush, addCalls, listenerLock,
                   pushing>>
    /\ UNCHANGED notAdapterVars

\* the deferred n.listenerLock.Unlock(); registerInstanceListener returns
AddListenerUnlock ==
    /\ addListener.pc = "unlock"
    /\ listenerLock' = "free"
    /\ addListener' = [addListener EXCEPT !.pc = "subscribe"]
    /\ UNCHANGED <<instanceListenerMap, subscriptions, adding, returned, lastPush, addCalls,
                   pushing>>
    /\ UNCHANGED notAdapterVars

\* one Subscribe of the loop of AddListener; an error ends the call
AddListenerSubscribeCall ==
    /\ addListener.pc = "subscribe"
    /\ \E serviceName \in addListener.todo, ok \in BOOLEAN, kept \in BOOLEAN :
          /\ ok => kept
          /\ subscriptions' = [subscriptions EXCEPT
                                  ![serviceName] = IF kept THEN @ + 1 ELSE @]
          /\ addListener' = IF ok /\ addListener.todo # {serviceName}
                            THEN [addListener EXCEPT !.todo = @ \ {serviceName}]
                            ELSE NoAddListener
    /\ UNCHANGED <<instanceListenerMap, adding, returned, lastPush, addCalls, listenerLock,
                   pushing>>
    /\ UNCHANGED notAdapterVars

\* whether the SubscribeCallback takes listenerLock for its read of the map
CallbackLocks == FALSE

\* the backend calls a SubscribeCallback of a service, with or without an error
PushBegin ==
    /\ pushing.pc = "idle"
    /\ CallbackLocks => listenerLock = "free"
    /\ \E serviceName \in ServiceNames, err \in BOOLEAN :
          /\ subscriptions[serviceName] > 0
          /\ pushing' = [NoPushing EXCEPT !.pc = "read", !.service = serviceName,
                                          !.err = err, !.locked = CallbackLocks]
    /\ listenerLock' = IF CallbackLocks THEN "push" ELSE listenerLock
    /\ UNCHANGED <<instanceListenerMap, subscriptions, adding, returned, lastPush, addCalls,
                   addListener>>
    /\ UNCHANGED notAdapterVars

\* the callback reads n.instanceListenerMap[serviceName].Values(); a read that
\* meets registerInstanceListener inside its loop is a data race, whose outcome
\* is the set before the pending store, the set after it, or a crash
PushRead ==
    /\ pushing.pc = "read"
    /\ LET racing == addListener.pc = "write"
           now == ListenersOf(instanceListenerMap, pushing.service)
           views == IF racing THEN {now, now \cup {addListener.listener}} ELSE {now}
       IN \/ \E view \in views :
                pushing' = [pushing EXCEPT !.pc = "dispatch", !.seen = view,
                                           !.raced = racing]
          \/ /\ racing
             /\ pushing' = [pushing EXCEPT !.pc = "fatal", !.raced = TRUE]
    /\ UNCHANGED <<instanceListenerMap, subscriptions, adding, returned, lastPush, addCalls,
                   listenerLock, addListener>>
    /\ UNCHANGED notAdapterVars

\* OnEvent is called on every listener read; the callback returns.  The
\* record keeps the service and the listeners of the run that ended last.
PushDispatch ==
    /\ pushing.pc = "dispatch"
    /\ pushing' = [pushing EXCEPT !.pc = "idle", !.locked = FALSE]
    /\ listenerLock' = IF pushing.locked THEN "free" ELSE listenerLock
    /\ UNCHANGED <<instanceListenerMap, subscriptions, adding, returned, lastPush, addCalls,
                   addListener>>
    /\ UNCHANGED notAdapterVars

AdapterRegister == AdapterBudget /\ Register
AdapterUnregister == AdapterBudget /\ Unregister
AdapterUpdate == AdapterBudget /\ Update

InitAdapter ==
    /\ IdleConc
    /\ IdleInit
    /\ InitRegister
    /\ instanceListenerMap = EmptyListenerMap
    /\ subscriptions = [s \in ServiceNames |-> 0]
    /\ addCalls = 0
    /\ listenerLock = "free"
    /\ addListener = NoAddListener
    /\ pushing = NoPushing

NextAdapter ==
    \/ AddListenerLock
    \/ AddListenerWrite
    \/ AddListenerUnlock
    \/ AddListenerSubscribeCall
    \/ PushBegin
    \/ PushRead
    \/ PushDispatch
    \/ AdapterRegister
    \/ AdapterUnregister
    \/ AdapterUpdate
    \/ DestroyBegin
    \/ DestroyUnregister
    \/ DestroyClose

SpecAdapter == InitAdapter /\ [][NextAdapter]_vars

\* C18: every read and every write of the listener map is made with
\* listenerLock held, Subscribe is called with listenerLock not held, and a
\* push never reads the map while AddListener is writing it.
C18_ListenerMapLocking ==
    /\ addListener.pc = "write" => listenerLock = "AddListener"
    /\ addListener.pc = "subscribe" => listenerLock # "AddListener"
    /\ pushing.pc = "read" => listenerLock = "push"
    /\ ~(pushing.pc = "read" /\ addListener.pc = "write")
    /\ ~pushing.raced

\* C19: no step of AddListener, of a push, or of Register, Unregister, Update
\* or Destroy removes a service name from the listener map or a listener from
\* the set recorded under a name.
C19_ListenerSetsGrow ==
    [][\A s \in DOMAIN instanceListenerMap :
          /\ s \in DOMAIN instanceListenerMap'
          /\ instanceListenerMap[s] \subseteq instanceListenerMap'[s]]_vars

\* both listeners recorded under s1 by two AddListener calls, Destroy done,
\* and a push for s1 dispatching to both
C19_Witness ==
    /\ "s1" \in DOMAIN instanceListenerMap
    /\ instanceListenerMap["s1"] = Listeners
    /\ addCalls = 2
    /\ destroy.pc = "done"
    /\ pushing.pc = "dispatch"
    /\ pushing.seen = Listeners

(***************************************************************************)
(* ReferenceConfig.Init(root).  A nil section of the root carries nil =    *)
(* TRUE; a *bool is the empty sequence when nil and <<b>> when set.        *)
(***************************************************************************)
\* one registry id split at its commas, the parts trimmed
SplitIds(id) ==
    CASE id = "r1,r2"   -> <<"r1", "r2">>
      [] id = "r1, r2"  -> <<"r1", "r2">>
      [] OTHER          -> <<id>>

\* translateIds: every entry split at its commas
RECURSIVE translateIds(_)
translateIds(ids) ==
    IF ids = <<>> THEN <<>> ELSE SplitIds(Head(ids)) \o translateIds(Tail(ids))

\* verify: a reference without an interface name is rejected
verify(r) == IF r.InterfaceName = "" THEN "interface name required" ELSE "nil"

\* the fields taken from root.Application
InitFromApplication(r, root) ==
    IF root.Application.nil THEN r
    ELSE [r EXCEPT !.metaDataType = root.Application.MetadataType,
                   !.Group = IF @ = "" THEN root.Application.Group ELSE @,
                   !.Version = IF @ = "" THEN root.Application.Version ELSE @]

\* the consumer section's values stored whatever the reference carries
InitFromConsumerOverwriting(r, root) ==
    IF root.Consumer.nil THEN r
    ELSE [r EXCEPT !.Filter = root.Consumer.Filter,
                   !.RegistryIDs = root.Consumer.RegistryIDs,
                   !.Protocol = root.Consumer.Protocol,
                   !.TracingKey = root.Consumer.TracingKey,
                   !.Check = <<root.Consumer.Check>>]

\* the fields taken from root.Consumer
InitFromConsumer(r, root) ==
    IF root.Consumer.nil THEN r
    ELSE [r EXCEPT !.Filter = IF @ = "" THEN root.Consumer.Filter ELSE @,
                   !.RegistryIDs = IF Len(@) <= 0 THEN root.Consumer.RegistryIDs ELSE @,
                   !.Protocol = IF @ = "" THEN root.Consumer.Protocol ELSE @,
                   !.TracingKey = IF @ = "" THEN root.Consumer.TracingKey ELSE @,
                   !.Check = IF @ = <<>> THEN <<root.Consumer.Check>> ELSE @]

\* Init with the method configurations' own Init failing or not: the
\* reference afterwards and the error returned
InitReference(r, root, methodErr) ==
    LET r1 == InitFromApplication(r, root)
        r2 == [r1 EXCEPT !.RegistryIDs = translateIds(@)]
        r3 == InitFromConsumer(r2, root)
        r4 == [r3 EXCEPT !.Cluster = IF @ = "" THEN ClusterKeyFailover ELSE @]
        r5 == [r4 EXCEPT !.metricsEnable = IF root.Metrics.Enable # <<>>
                                           THEN root.Metrics.Enable[1] ELSE @]
    IN  IF methodErr THEN [rc |-> r, err |-> "method init"]
        ELSE [rc |-> r5, err |-> verify(r5)]

\* the references Init is called on
InitReferences ==
    {[NoReference EXCEPT !.InterfaceName = i, !.Group = g, !.Version = v, !.Filter = f,
                         !.RegistryIDs = ids, !.Protocol = p, !.TracingKey = t,
                         !.Check = ch, !.Cluster = cl] :
        i \in {"", "com.X"}, g \in {"", "g1"}, v \in {"", "v1"}, f \in {"", "f1"},
        ids \in {<<>>, <<"r1,r2">>, <<"r3">>}, p \in {"", "tri"}, t \in {"", "t1"},
        ch \in {<<>>, <<FALSE>>, <<TRUE>>}, cl \in {"", "failfast"}}

InitApplications ==
    {[NoApplication EXCEPT !.nil = TRUE],
     NoApplication,
     [NoApplication EXCEPT !.Group = "ag", !.Version = "av", !.MetadataType = "local"]}

InitConsumers ==
    {[NoRoot.Consumer EXCEPT !.nil = TRUE], NoRoot.Consumer} \cup
    {[NoRoot.Consumer EXCEPT !.Filter = "cf", !.RegistryIDs = <<"cr">>,
                             !.Protocol = "dubbo", !.TracingKey = "ct", !.Check = ch] :
        ch \in BOOLEAN}

InitRoots ==
    {[NoRoot EXCEPT !.Application = a, !.Consumer = co, !.Metrics.Enable = m] :
        a \in InitApplications, co \in InitConsumers, m \in {<<>>, <<TRUE>>}}

InitInit ==
    /\ IdleConc
    /\ IdleURL /\ IdleInst /\ IdlePage /\ IdleReg /\ IdleLis /\ IdleSvc /\ IdleNew
    /\ IdleLock /\ IdleLisLock
    /\ rc \in InitReferences
    /\ rootConfig = NoRoot
    /\ referOutcome = "none"
    /\ invokersAcquired = 0
    /\ referCalls = 0
    /\ initRoot \in InitRoots
    /\ initResult = "none"

\* rc.Init(root)
DoInit ==
    /\ initResult = "none"
    /\ \E methodErr \in BOOLEAN :
       \E res \in {InitReference(rc, initRoot, methodErr)} :
          /\ rc' = res.rc
          /\ initResult' = res.err
          /\ rootConfig' = IF methodErr THEN rootConfig ELSE initRoot
    /\ UNCHANGED <<initRoot, referOutcome, invokersAcquired, referCalls>>
    /\ UNCHANGED notRcInitVars

NextInit == DoInit

SpecInit == InitInit /\ [][NextInit]_vars

\* the value the precedence gives a field: the reference's own when set, else
\* the section's when the section is there, else the reference's zero value
Precedence(own, unset, sectionNil, sectionValue) ==
    IF ~unset THEN own ELSE IF sectionNil THEN own ELSE sectionValue

\* C23: after Init(root) each of group, version, filter, registry IDs,
\* protocol, tracing key and check is the reference's own value when one was
\* set, else the value of the root section that carries the field, else the
\* zero value; cluster is failover when unset; a value set on the reference is
\* never replaced by a root value.
C23_InitPrecedence ==
    [][(initResult = "none" /\ initResult' # "none" /\ initResult' # "method init") =>
        LET app == initRoot.Application
            con == initRoot.Consumer
            ids == translateIds(rc.RegistryIDs)
        IN  /\ rc'.Group = Precedence(rc.Group, rc.Group = "", app.nil, app.Group)
            /\ rc'.Version = Precedence(rc.Version, rc.Version = "", app.nil, app.Version)
            /\ rc'.Filter = Precedence(rc.Filter, rc.Filter = "", con.nil, con.Filter)
            /\ rc'.RegistryIDs = Precedence(ids, ids = <<>>, con.nil, con.RegistryIDs)
            /\ rc'.Protocol =
                   Precedence(rc.Protocol, rc.Protocol = "", con.nil, con.Protocol)
            /\ rc'.TracingKey =
                   Precedence(rc.TracingKey, rc.TracingKey = "", con.nil, con.TracingKey)
            /\ rc'.Check = Precedence(rc.Check, rc.Check = <<>>, con.nil, <<con.Check>>)
            /\ rc'.Cluster = IF rc.Cluster = "" THEN ClusterKeyFailover ELSE rc.Cluster]_vars

\* Init returned nil on a reference with its own protocol, registry ids and
\* check and without group, filter and cluster, under a root with both sections
C23_Witness ==
    /\ initResult = "nil"
    /\ rc.Protocol = "tri" /\ initRoot.Consumer.Protocol = "dubbo"
    /\ rc.RegistryIDs = <<"r1", "r2">> /\ initRoot.Consumer.RegistryIDs = <<"cr">>
    /\ rc.Check = <<FALSE>> /\ initRoot.Consumer.Check
    /\ rc.Group = "ag" /\ rc.Version = "v1"
    /\ rc.Filter = "cf"
    /\ rc.Cluster = ClusterKeyFailover

(***************************************************************************)
(* Register called from two goroutines.  The adapter takes no lock in      *)
(* Register, so each read and each store of n.serviceNameInstancesMap and  *)
(* of n.registryInstances is a step of its own.                            *)
(***************************************************************************)
\* the variables the concurrent calls leave alone: of the adapter, and the others
notConcRegVars == <<lastCall, calls, registerLog, destroy, registryURL>>

notRegisteringVars == <<urlVars, pageVars, lisVars, rcVars, instance, registerParam,
                        fetched, instpc, svcVars, newVars, lockVars, lisLockVars, initVars>>

\* Register(instance) is called on goroutine p
RegisterCall(p) ==
    /\ registering[p].pc = "idle"
    /\ \E inst \in {i \in RegInstances : i.ServiceName = "s1"} :
          registering' = [registering EXCEPT ![p] =
                             [NoRegistering EXCEPT !.pc = "read", !.instance = inst]]
    /\ UNCHANGED <<serviceNameInstancesMap, registryInstances, lastBatch, notConcRegVars>>
    /\ UNCHANGED notRegisteringVars

\* append(n.serviceNameInstancesMap[instSrvName], instance) reads the list
RegisterReadList(p) ==
    /\ registering[p].pc = "read"
    /\ registering' = [registering EXCEPT
           ![p].local = serviceNameInstancesMap[registering[p].instance.ServiceName],
           ![p].pc = "store"]
    /\ UNCHANGED <<serviceNameInstancesMap, registryInstances, lastBatch, notConcRegVars>>
    /\ UNCHANGED notRegisteringVars

\* n.serviceNameInstancesMap[instSrvName] = ...: the store; two stores into the
\* map at once are a data race, which the runtime may end with a fatal error
RegisterStoreList(p) ==
    /\ registering[p].pc = "store"
    /\ \/ /\ serviceNameInstancesMap' =
                [serviceNameInstancesMap EXCEPT
                    ![registering[p].instance.ServiceName] =
                        Append(registering[p].local, registering[p].instance)]
          /\ registering' = [registering EXCEPT ![p].pc = "batch"]
       \/ /\ \E q \in Goroutines \ {p} : registering[q].pc = "store"
          /\ registering' = [registering EXCEPT ![p].pc = "fatal"]
          /\ UNCHANGED serviceNameInstancesMap
    /\ UNCHANGED <<registryInstances, lastBatch, notConcRegVars>>
    /\ UNCHANGED notRegisteringVars

\* toBatchRegisterInstances on the list as the map holds it now, and the
\* backend call; an error ends the call
RegisterBatch(p) ==
    /\ registering[p].pc = "batch"
    /\ \E ans \in BackendAnswers :
          registering' = [registering EXCEPT
              ![p].ret = RegisterResult(ans),
              ![p].pc = IF RegisterResult(ans) = "nil" THEN "readRecorded" ELSE "done"]
    /\ lastBatch' = toBatchRegisterInstances(
                        serviceNameInstancesMap[registering[p].instance.ServiceName],
                        registryURL, defaultGroup)
    /\ UNCHANGED <<serviceNameInstancesMap, registryInstances, notConcRegVars>>
    /\ UNCHANGED notRegisteringVars

\* append(n.registryInstances, instance) reads the list
RegisterReadRecorded(p) ==
    /\ registering[p].pc = "readRecorded"
    /\ registering' = [registering EXCEPT ![p].local = registryInstances,
                                          ![p].pc = "storeRecorded"]
    /\ UNCHANGED <<serviceNameInstancesMap, registryInstances, lastBatch, notConcRegVars>>
    /\ UNCHANGED notRegisteringVars

\* n.registryInstances = ...: the store; Register returns nil
RegisterStoreRecorded(p) ==
    /\ registering[p].pc = "storeRecorded"
    /\ registryInstances' = Append(registering[p].local, registering[p].instance)
    /\ registering' = [registering EXCEPT ![p].pc = "done"]
    /\ UNCHANGED <<serviceNameInstancesMap, lastBatch, notConcRegVars>>
    /\ UNCHANGED notRegisteringVars

InitConcurrent ==
    /\ InitRegister
    /\ registering = [p \in Goroutines |-> NoRegistering]

NextConcurrent ==
    \E p \in Goroutines :
        \/ RegisterCall(p)
        \/ RegisterReadList(p)
        \/ RegisterStoreList(p)
        \/ RegisterBatch(p)
        \/ RegisterReadRecorded(p)
        \/ RegisterStoreRecorded(p)

SpecConcurrent == InitConcurrent /\ [][NextConcurrent]_vars

\* C29: when two concurrent Register calls for the same service name have both
\* returned nil, the per-service batch list and the list of recorded instances
\* each hold both instances.
C29_ConcurrentRegisterLosesNone ==
    (\A p \in Goroutines : registering[p].pc = "done" /\ registering[p].ret = "nil") =>
        \A p \in Goroutines :
            /\ registering[p].instance \in Members(serviceNameInstancesMap["s1"])
            /\ registering[p].instance \in Members(registryInstances)

====
